---- MODULE Spec2Model ----
(***************************************************************************)
(* Capital-tiered recommendation scoring and allocation of the ASX         *)
(* investment platform.  Two servers implement generate_recommendations:   *)
(*   "live"    src/api/index.py                  (quote-derived scores)    *)
(*   "gateway" src/services/api-gateway/main.py  (hash-derived scores)     *)
(*                                                                         *)
(* Units.  Money is in integer cents (a float rounded with round(x, 2)).   *)
(* Percentages reported with round(x, 1) are in tenths of a percent;       *)
(* values reported with round(x, 2) are in hundredths.  Unrounded float    *)
(* quantities are exact rationals <<numerator, denominator>> in lowest     *)
(* terms; float representation error is not modelled.                      *)
(***************************************************************************)
EXTENDS Integers, Sequences, FiniteSets, TLC

\* ------------------------------------------------------------------------
\* Bounds of the model
\* ------------------------------------------------------------------------

\* number of catalog symbols considered (a prefix of ASX_STOCKS)
NumSymbols == 3

Symbols == 1..NumSymbols

\* number of catalog symbols fetched in the model of the quote fetch
NumFetched == 2

\* number of invocations of generate_recommendations running at once
NumInvocations == 2

\* number of times the clock advances
MaxTicks == 1

\* number of user ids known to the ConnectionManager
NumUsers == 2

\* number of websocket objects that may connect
NumSockets == 3

\* number of CACHE_TTL periods the clock of the cache model runs through
MaxPeriods == 3

\* ------------------------------------------------------------------------
\* Exact arithmetic
\* ------------------------------------------------------------------------

Abs(x) == IF x < 0 THEN -x ELSE x

Max2(a, b) == IF a >= b THEN a ELSE b

Min2(a, b) == IF a <= b THEN a ELSE b

RECURSIVE GCD(_, _)
GCD(a, b) == IF b = 0 THEN a ELSE GCD(b, a % b)

LCM(a, b) == (a \div GCD(a, b)) * b

\* the rational n/d (d > 0) in lowest terms
Rat(n, d) ==
    LET g == GCD(Abs(n), d) IN <<n \div g, d \div g>>

RatAdd(x, y) ==
    LET l == LCM(x[2], y[2])
    IN  Rat(x[1] * (l \div x[2]) + y[1] * (l \div y[2]), l)

RatLess(x, y) ==
    LET l == LCM(x[2], y[2])
    IN  x[1] * (l \div x[2]) < y[1] * (l \div y[2])

RatMin(x, y) == IF RatLess(y, x) THEN y ELSE x

RatMax(x, y) == IF RatLess(x, y) THEN y ELSE x

\* <<q, r>> with a * b = q * c + r and 0 <= r < c, for a, b >= 0 and c > 0,
\* computed by doubling so that no intermediate exceeds 2c + a
RECURSIVE MulDivQR(_, _, _)
MulDivQR(a, b, c) ==
    IF b = 0 THEN <<0, 0>>
    ELSE LET h == MulDivQR(a, b \div 2, c)
             t == 2 * h[2] + (b % 2) * a
         IN  <<2 * h[1] + (t \div c), t % c>>

\* Python round(): nearest integer to q + r/c, ties to the even neighbour
RoundQR(qr, c) ==
    IF 2 * qr[2] > c THEN qr[1] + 1
    ELSE IF 2 * qr[2] < c THEN qr[1]
    ELSE IF qr[1] % 2 = 0 THEN qr[1] ELSE qr[1] + 1

\* round(n / d) for d > 0
RoundHalfEven(n, d) == RoundQR(<<n \div d, n % d>>, d)

\* ------------------------------------------------------------------------
\* Request validation, tiers and multipliers
\* ------------------------------------------------------------------------

\* capital bounds of the validation, in cents
MinCapital == 5000

MaxCapital == 1000000

\* tier boundaries, in cents
Tier1Max == 50000

Tier2Max == 200000

Tier3Max == 500000

\* faulty variant: boundaries inclusive on the upper tier
get_tier_Strict(capital) ==
    IF capital < Tier1Max THEN <<1, 1, 50>>
    ELSE IF capital < Tier2Max THEN <<2, 3, 60>>
    ELSE IF capital < Tier3Max THEN <<3, 7, 70>>
    ELSE <<4, 15, 80>>

\* get_tier(capital) = <<tier, max_positions, max_risk in hundredths>>
get_tier(capital) ==
    IF capital <= Tier1Max THEN <<1, 1, 50>>
    ELSE IF capital <= Tier2Max THEN <<2, 3, 60>>
    ELSE IF capital <= Tier3Max THEN <<3, 7, 70>>
    ELSE <<4, 15, 80>>

\* CapitalAwareRecommendationEngine._determine_capital_tier with the
\* RecommendationConfig defaults
determine_capital_tier(capital) ==
    IF capital <= Tier1Max THEN 1
    ELSE IF capital <= Tier2Max THEN 2
    ELSE IF capital <= Tier3Max THEN 3
    ELSE 4

\* CapitalAwareRecommendationEngine._get_max_positions (tier_limits.get(tier, 3))
get_max_positions(t) ==
    CASE t = 1 -> 1 [] t = 2 -> 3 [] t = 3 -> 7 [] t = 4 -> 15 [] OTHER -> 3

\* CapitalAwareRecommendationEngine._get_max_risk_for_tier, in hundredths
get_max_risk_for_tier(t) ==
    CASE t = 1 -> 50 [] t = 2 -> 60 [] t = 3 -> 70 [] t = 4 -> 80 [] OTHER -> 60

\* faulty variant: both boundaries rejected
CapitalOutOfRange_Exclusive(capital) == capital <= MinCapital \/ capital >= MaxCapital

\* the range check of generate_recommendations (live) and of the
\* create_recommendations route (gateway)
CapitalOutOfRange(capital) == capital < MinCapital \/ capital > MaxCapital

\* PortfolioConstraints.validate_capital: the error raised, or "ok"
validate_capital(v) ==
    IF v < MinCapital THEN "Minimum investment is $50"
    ELSE IF v > MaxCapital THEN "Maximum investment is $10,000"
    ELSE "ok"

\* capital = max(50, min(10000, req.total_capital))   (gateway)
ClampCapital(c) == Max2(MinCapital, Min2(MaxCapital, c))

\* faulty variant: an unrecognized strategy has no default and scores nothing
strat_mult_NoDefault(s) ==
    CASE s = "conservative" -> 7
      [] s = "balanced"     -> 10
      [] s = "growth"       -> 13
      [] s = "aggressive"   -> 15
      [] OTHER              -> 0

\* strat_mult.get(investment_strategy, 1.0), in tenths
strat_mult(s) ==
    CASE s = "conservative" -> 7
      [] s = "balanced"     -> 10
      [] s = "growth"       -> 13
      [] s = "aggressive"   -> 15
      [] OTHER              -> 10

\* risk_mult_map.get(risk_tolerance, 1.0), in tenths
risk_mult_map(r) ==
    CASE r = "very_low"  -> 5
      [] r = "low"       -> 7
      [] r = "moderate"  -> 10
      [] r = "high"      -> 13
      [] r = "very_high" -> 15
      [] OTHER           -> 10

ValidationError == "Capital must be between $50 and $10,000"

\* ------------------------------------------------------------------------
\* Candidate data
\* ------------------------------------------------------------------------

\* ASX_STOCKS of the gateway: catalog prices in cents, in insertion order
\* (CBA.AX, BHP.AX, CSL.AX, NAB.AX, WBC.AX)
GatewayPrice == <<11850, 4420, 28500, 3780, 2850>>

\* the residues hash(symbol) % 15, hash(symbol + "conf") % 30 and
\* hash(symbol + "risk") % 40 of one symbol; Python salts str hashes per
\* process, so any residues can occur
HashResidues ==
    { [ret |-> 0,  conf |-> 0,  risk |-> 0],
      [ret |-> 2,  conf |-> 20, risk |-> 20],
      [ret |-> 14, conf |-> 29, risk |-> 21],
      [ret |-> 0,  conf |-> 0,  risk |-> 31] }

\* quotes returned by fetch_all_quotes for one symbol, prices in cents
LiveQuotes ==
    { [price |-> 1000,  previous_close |-> 1000,
       fifty_two_week_high |-> 1200,  fifty_two_week_low |-> 800],
      [price |-> 1040,  previous_close |-> 1040,
       fifty_two_week_high |-> 1200,  fifty_two_week_low |-> 800],
      [price |-> 40000, previous_close |-> 40000,
       fifty_two_week_high |-> 48000, fifty_two_week_low |-> 32000],
      [price |-> 1100,  previous_close |-> 1000,
       fifty_two_week_high |-> 1200,  fifty_two_week_low |-> 800],
      [price |-> 8000,  previous_close |-> 8000,
       fifty_two_week_high |-> 8000,  fifty_two_week_low |-> 8000] }

\* _parse_chart_meta returned None (no chart result, or the request failed)
NoQuote ==
    [price |-> -1, previous_close |-> -1,
     fifty_two_week_high |-> -1, fifty_two_week_low |-> -1]

\* a quote whose regularMarketPrice is missing: quote.get('price') is falsy
NoPriceQuote ==
    [price |-> 0, previous_close |-> 0,
     fifty_two_week_high |-> 1200, fifty_two_week_low |-> 0]

\* what all_quotes.get(sym) can be
QuoteResults == LiveQuotes \cup {NoQuote, NoPriceQuote}

\* if not quote or not quote.get('price'): continue
HasPrice(q) == ~ (q = NoQuote \/ q.price = 0)

\* ------------------------------------------------------------------------
\* Scoring (live): index.py generate_recommendations, the body of the
\* loop over ASX_STOCKS
\* ------------------------------------------------------------------------

\* daily_change = (price - prev) / prev * 100 if prev else 0
LiveDailyChange(q) ==
    IF q.previous_close # 0
    THEN Rat((q.price - q.previous_close) * 100, q.previous_close)
    ELSE <<0, 1>>

\* from_52w_high = (w52_high - price) / w52_high * 100 if w52_high else 0
LiveFrom52wHigh(q) ==
    IF q.fifty_two_week_high # 0
    THEN Rat((q.fifty_two_week_high - q.price) * 100, q.fifty_two_week_high)
    ELSE <<0, 1>>

\* base_return = max(2.0, min(5.0 + from_52w_high * 0.3 + daily_change * 0.5, 25.0))
LiveBaseReturn(q) ==
    LET f   == LiveFrom52wHigh(q)
        d   == LiveDailyChange(q)
        raw == RatAdd(RatAdd(<<5, 1>>, Rat(3 * f[1], 10 * f[2])),
                      Rat(d[1], 2 * d[2]))
    IN  RatMax(<<2, 1>>, RatMin(raw, <<25, 1>>))

\* range_width = w52_high - w52_low if w52_high > w52_low else 1 (one dollar)
\* position_in_range = (price - w52_low) / range_width
LivePositionInRange(q) ==
    LET range_width == IF q.fifty_two_week_high > q.fifty_two_week_low
                       THEN q.fifty_two_week_high - q.fifty_two_week_low
                       ELSE 100
    IN  Rat(q.price - q.fifty_two_week_low, range_width)

\* confidence = 0.55 + (1 - position_in_range) * 0.35
LiveConfidence(q) ==
    LET pos == LivePositionInRange(q)
    IN  RatAdd(<<11, 20>>, Rat(7 * (pos[2] - pos[1]), 20 * pos[2]))

\* risk_score = min(0.2 + position_in_range * 0.5 + abs(daily_change) * 0.02, 0.95)
LiveRiskScore(q) ==
    LET pos == LivePositionInRange(q)
        d   == LiveDailyChange(q)
        raw == RatAdd(RatAdd(<<1, 5>>, Rat(pos[1], 2 * pos[2])),
                      Rat(Abs(d[1]), 50 * d[2]))
    IN  RatMin(raw, <<19, 20>>)

\* the dict appended to scored; adj_return is rounded to one decimal
\* before it enters the score
LiveCandidate(sym, q, smult, rmult) ==
    LET base == LiveBaseReturn(q)
        conf == LiveConfidence(q)
        risk == LiveRiskScore(q)
        adj_return == RoundHalfEven(base[1] * smult * rmult, base[2] * 10)
    IN  [symbol           |-> sym,
         price            |-> q.price,
         predicted_return |-> adj_return,
         confidence       |-> RoundHalfEven(conf[1] * 100, conf[2]),
         risk_score       |-> RoundHalfEven(risk[1] * 100, risk[2]),
         score            |-> Rat(adj_return * conf[1], 10 * conf[2])]

\* CapitalAwareRecommendationEngine._calculate_stock_score without a price
\* or a prediction: {"score": 0, "reason": "Insufficient data"}; _select_stocks
\* reads the absent risk_score as 1.0.  Score in ten-thousandths, risk in
\* hundredths.
InsufficientData == [score |-> 0, risk_score |-> 100]

\* _select_stocks: risk_score <= max_risk and score > 0.3
Eligible(data, maxRisk) == data.risk_score <= maxRisk /\ data.score > 3000

\* ------------------------------------------------------------------------
\* Scoring (gateway): main.py generate_recommendations, the body of the
\* loop over ASX_STOCKS
\* ------------------------------------------------------------------------

\* risk_score = 0.3 + (hash(symbol + "risk") % 40) / 100, in hundredths
GatewayRiskScore(h) == 30 + h.risk

\* if risk_score > max_risk: continue
GatewayPassesRisk(h, maxRisk) == ~ (GatewayRiskScore(h) > maxRisk)

\* the dict appended to scored; the score uses the unrounded adj_return
GatewayCandidate(sym, h, smult, rmult) ==
    LET base_return == 8 + h.ret
        confidence  == 60 + h.conf
    IN  [symbol           |-> sym,
         price            |-> GatewayPrice[sym],
         predicted_return |-> RoundHalfEven(base_return * smult * rmult, 10),
         confidence       |-> confidence,
         risk_score       |-> GatewayRiskScore(h),
         score            |-> Rat(base_return * smult * rmult * confidence, 10000)]

\* ------------------------------------------------------------------------
\* Ranking: scored.sort(key=score, reverse=True); picks = scored[:max_pos]
\* ------------------------------------------------------------------------

\* faulty variant: an unstable sort that puts a later element before its equals
RECURSIVE InsertByScore_Unstable(_, _)
InsertByScore_Unstable(sorted, x) ==
    IF sorted = <<>> THEN <<x>>
    ELSE IF ~ RatLess(x.score, Head(sorted).score) THEN <<x>> \o sorted
    ELSE <<Head(sorted)>> \o InsertByScore_Unstable(Tail(sorted), x)

\* list.sort is stable, also with reverse=True: an element is placed after
\* every earlier element whose score is not smaller
RECURSIVE InsertByScore(_, _)
InsertByScore(sorted, x) ==
    IF sorted = <<>> THEN <<x>>
    ELSE IF RatLess(Head(sorted).score, x.score) THEN <<x>> \o sorted
    ELSE <<Head(sorted)>> \o InsertByScore(Tail(sorted), x)

RECURSIVE SortByScoreDesc(_)
SortByScoreDesc(s) ==
    IF s = <<>> THEN <<>>
    ELSE InsertByScore(SortByScoreDesc(SubSeq(s, 1, Len(s) - 1)), s[Len(s)])

\* scored[:max_pos]
Truncate(s, n) == SubSeq(s, 1, Min2(n, Len(s)))

RECURSIVE SumScores(_)
SumScores(s) ==
    IF s = <<>> THEN <<0, 1>> ELSE RatAdd(Head(s).score, SumScores(Tail(s)))

\* ------------------------------------------------------------------------
\* Allocation: one iteration of the loop over picks
\* ------------------------------------------------------------------------

\* floor(capital * score / total) in cents.  With the price a whole number
\* of cents, int(alloc / price) = floor(alloc) \div price.
AllocQR(capital, score, total) ==
    LET l == LCM(score[2], total[2])
    IN  <<MulDivQR(capital, score[1] * (l \div score[2]), total[1] * (l \div total[2])),
          total[1] * (l \div total[2])>>

\* index.py: total_score = sum(p['score'] for p in picks) or 1
LiveTotalScore(picks) ==
    LET t == SumScores(picks) IN IF t[1] = 0 THEN <<1, 1>> ELSE t

\* faulty variant: the budget test of line 581 is missing
LiveAllocate_NoBudgetTest(p, capital, total_score, total_invested) ==
    LET alloc   == AllocQR(capital, p.score, total_score)[1][1]
        shares1 == Max2(1, alloc \div p.price)
        cost1   == shares1 * p.price
        over    == total_invested + cost1 > capital
        shares  == IF over THEN Max2(1, (capital - total_invested) \div p.price)
                   ELSE shares1
        cost    == shares * p.price
    IN  <<shares, cost, ~ (cost <= 0)>>

\* faulty variant: the whole score-proportional target is invested (fractional shares)
LiveAllocate_Fractional(p, capital, total_score, total_invested) ==
    LET alloc   == AllocQR(capital, p.score, total_score)[1][1]
        shares  == Max2(1, alloc \div p.price)
        cost    == alloc
    IN  <<shares, cost, ~ (cost <= 0 \/ total_invested + cost > capital)>>

\* faulty variant: a pick whose score-proportional target does not pay for
\* one share is not accepted
LiveAllocate_TargetDecides(p, capital, total_score, total_invested) ==
    LET alloc   == AllocQR(capital, p.score, total_score)[1][1]
        shares1 == Max2(1, alloc \div p.price)
        cost1   == shares1 * p.price
        over    == total_invested + cost1 > capital
        shares  == IF over THEN Max2(1, (capital - total_invested) \div p.price)
                   ELSE shares1
        cost    == shares * p.price
    IN  <<shares, cost,
          ~ (cost <= 0 \/ total_invested + cost > capital \/ alloc < p.price)>>

\* index.py, lines 575-582: <<shares, cost, accepted>> for pick p
LiveAllocate(p, capital, total_score, total_invested) ==
    LET alloc   == AllocQR(capital, p.score, total_score)[1][1]
        shares1 == Max2(1, alloc \div p.price)
        cost1   == shares1 * p.price
        over    == total_invested + cost1 > capital
        shares  == IF over THEN Max2(1, (capital - total_invested) \div p.price)
                   ELSE shares1
        cost    == shares * p.price
    IN  <<shares, cost, ~ (cost <= 0 \/ total_invested + cost > capital)>>

\* main.py: total_score = sum(p["score"] for p in picks)
GatewayTotalScore(picks) == SumScores(picks)

\* main.py, lines 151-161: <<shares, actual_cost, accepted>> for pick
GatewayAllocate(pick, capital, total_score, total_invested, npicks) ==
    LET weight     == IF total_score[1] > 0
                      THEN AllocQR(capital, pick.score, total_score)
                      ELSE <<MulDivQR(capital, 1, npicks), npicks>>
        allocation == RoundQR(weight[1], weight[2])
        shares1    == Max2(1, allocation \div pick.price)
        cost1      == shares1 * pick.price
        over       == cost1 > capital - total_invested
        shares     == IF over THEN Max2(1, (capital - total_invested) \div pick.price)
                      ELSE shares1
        actual_cost == shares * pick.price
    IN  <<shares, actual_cost,
          ~ (actual_cost <= 0 \/ total_invested + actual_cost > capital)>>

\* the recommendation appended to recs for an accepted pick
\* target = round(price * (1 + predicted_return / 100), 2)
Recommendation(p, shares, cost) ==
    [symbol                 |-> p.symbol,
     current_price          |-> p.price,
     target_price           |-> RoundHalfEven(p.price * (1000 + p.predicted_return), 1000),
     predicted_return       |-> p.predicted_return,
     confidence_score       |-> p.confidence,
     recommended_allocation |-> cost,
     recommended_shares     |-> shares]

RECURSIVE SumField(_, _)
SumField(s, f) == IF s = <<>> THEN 0 ELSE Head(s)[f] + SumField(Tail(s), f)

\* avg_return = round(sum(predicted_return) / len(recs), 1) if recs else 0
AvgReturn(recs) ==
    IF recs # <<>> THEN RoundHalfEven(SumField(recs, "predicted_return"), Len(recs))
    ELSE 0

\* ------------------------------------------------------------------------
\* State
\* ------------------------------------------------------------------------

VARIABLES
    impl,            \* the server: "live" (index.py) or "gateway" (main.py)
    market,          \* per symbol: the quote (live) or the hash residues (gateway)
    pc,              \* position of the request handler
    entry,           \* "route": HTTP request; "direct": generate_recommendations called
    req,             \* total_capital, risk_tolerance, investment_strategy
    capital,         \* local: the capital the engine works with
    tier,            \* local: get_tier(capital)[0]
    max_pos,         \* local: get_tier(capital)[1]
    max_risk,        \* local: get_tier(capital)[2], in hundredths
    sm,              \* local: strategy multiplier, in tenths
    rm,              \* local: risk multiplier, in tenths
    scored,          \* local: candidates that passed the risk filter
    picks,           \* local: scored, sorted and truncated
    total_score,     \* local: sum of the picks' scores
    i,               \* local: index of the next pick in the allocation loop
    total_invested,  \* local: running total of accepted costs
    recs,            \* local: recommendations emitted so far
    response,        \* what the last call returned
    previous         \* what the call before returned, when it had the same input

VARIABLES
    _cache,          \* index.py _cache: per symbol ('quote_' + symbol) the (timestamp, data)
    now,             \* what time.time() returns, in seconds
    inv              \* per concurrent invocation: its position, locals and executor tasks

VARIABLES
    loop_quote,      \* index.py scoring loop: quote, of the symbol being scored
    cand             \* its base_return, confidence, risk_score and whether it was appended

VARIABLES
    engine_call,     \* CapitalAwareRecommendationEngine: the method called and its arguments
    engine_result    \* what the method returned

VARIABLES
    active_connections,   \* ConnectionManager: {user_id: [websockets]}
    stock_subscriptions,  \* ConnectionManager: {symbol: set(user_ids)}
    broadcast             \* the broadcast_stock_update coroutine in progress

VARIABLES
    _ai_cache,       \* index.py _ai_cache: the data entries and '_last_error'
    lookup           \* the TTL-cache lookup in progress

reqVars   == <<entry, req>>
tierVars  == <<capital, tier, max_pos, max_risk, sm, rm>>
loopVars  == <<picks, total_score, i, total_invested, recs>>
coreVars  == <<impl, market, pc, entry, req, capital, tier, max_pos, max_risk, sm, rm,
               scored, picks, total_score, i, total_invested, recs, response, previous>>
fetchVars == <<_cache, now, inv>>
scoreVars == <<loop_quote, cand>>
engineVars == <<engine_call, engine_result>>
managerVars == <<active_connections, stock_subscriptions, broadcast>>
cacheVars == <<_ai_cache, lookup>>
sideVars == <<scoreVars, engineVars, managerVars, cacheVars>>
vars == <<coreVars, fetchVars, sideVars>>

\* ------------------------------------------------------------------------
\* Requests and responses
\* ------------------------------------------------------------------------

\* request inputs explored
CapitalValues ==
    {4999, 5000, 50000, 50001, 53210, 200000, 200001, 500000, 500001, 1000000,
     1000001}

RequestStyles ==
    { <<"very_low", "conservative">>, <<"low", "balanced">>,
      <<"moderate", "growth">>,       <<"high", "aggressive">>,
      <<"very_high", "momentum">>,    <<"reckless", "balanced">> }

Requests ==
    { [total_capital |-> c, risk_tolerance |-> st[1], investment_strategy |-> st[2]] :
        c \in CapitalValues, st \in RequestStyles }

NoRequest == [total_capital |-> 0, risk_tolerance |-> "", investment_strategy |-> ""]

NoResponse ==
    [status |-> 0, error |-> "", tier |-> 0, total_investment |-> 0,
     expected_return |-> 0, risk_level |-> "", recommendations |-> <<>>]

ErrorResponse ==
    [status |-> 400, error |-> ValidationError, tier |-> 0, total_investment |-> 0,
     expected_return |-> 0, risk_level |-> "", recommendations |-> <<>>]

\* the locals of a call that is not running
NoLocals ==
    /\ capital = 0 /\ tier = 0 /\ max_pos = 0 /\ max_risk = 0 /\ sm = 0 /\ rm = 0
    /\ scored = <<>> /\ picks = <<>> /\ total_score = <<0, 1>>
    /\ i = 0 /\ total_invested = 0 /\ recs = <<>>

\* the function returns: its locals go away
DropLocals ==
    /\ capital' = 0 /\ tier' = 0 /\ max_pos' = 0 /\ max_risk' = 0 /\ sm' = 0 /\ rm' = 0
    /\ scored' = <<>> /\ picks' = <<>> /\ total_score' = <<0, 1>>
    /\ i' = 0 /\ total_invested' = 0 /\ recs' = <<>>

\* the result sets of fetch_all_quotes explored: the quote of the second
\* catalog symbol may be missing or lack a price
LiveMarkets ==
    { m \in [Symbols -> QuoteResults] : \A sym \in Symbols \ {2} : m[sym] \in LiveQuotes }

\* ------------------------------------------------------------------------
\* The quote cache and the invocations that fetch through it (index.py)
\* ------------------------------------------------------------------------

CACHE_TTL == 300

Invocations == 1..NumInvocations

\* the symbols of ASX_STOCKS handed to executor.map, in catalog order
FetchCatalog == [k \in 1..NumFetched |-> k]

Fetched == 1..NumFetched

\* no key 'quote_' + symbol in _cache
NoEntry == [ts |-> -1, data |-> NoQuote]

\* what Yahoo can answer for a symbol, after _parse_chart_meta
UpstreamQuotes ==
    { NoQuote,
      [price |-> 1000,  previous_close |-> 1000,
       fifty_two_week_high |-> 1200,  fifty_two_week_low |-> 800] }

\* request bodies of the concurrent invocations
FetchRequests ==
    { [total_capital |-> c, risk_tolerance |-> "moderate",
       investment_strategy |-> "balanced"] : c \in {4999, 500001} }

\* an invocation that is not running; th is the position of the executor
\* task of each symbol, tnow the time the task read, futures what it returned
IdleInvocation ==
    [pc        |-> "idle",
     req       |-> NoRequest,
     max_risk  |-> 0,
     sm        |-> 0,
     rm        |-> 0,
     th        |-> [sym \in Fetched |-> "none"],
     tnow      |-> [sym \in Fetched |-> 0],
     futures   |-> [sym \in Fetched |-> NoQuote],
     all_quotes |-> [sym \in Fetched |-> NoQuote],
     scored    |-> <<>>,
     status    |-> 0]

\* the module has just been loaded: empty cache, nobody running
FetchIdle ==
    /\ _cache = [sym \in Fetched |-> NoEntry]
    /\ now = 0
    /\ inv = [n \in Invocations |-> IdleInvocation]

\* ------------------------------------------------------------------------
\* Components that a specification does not exercise stay at rest
\* ------------------------------------------------------------------------

\* the scoring loop is not inside an iteration
NoCand ==
    [base_return |-> <<0, 1>>, confidence |-> <<0, 1>>, risk_score |-> <<0, 1>>,
     appended |-> FALSE, scored |-> FALSE]

ScoreIdle == loop_quote = NoQuote /\ cand = NoCand

\* no engine method has been called
NoCall == [method |-> "none"]

EngineIdle == engine_call = NoCall /\ engine_result = <<>>

\* no broadcast_stock_update call is in progress
NoBroadcast ==
    [pc |-> "idle", symbol |-> "", subscribers |-> {}, todo |-> {},
     size |-> 0, delivered |-> {}, failed |-> {}]

\* ConnectionManager.__init__: both dicts empty; no broadcast running
ManagerIdle ==
    /\ active_connections = <<>>
    /\ stock_subscriptions = <<>>
    /\ broadcast = NoBroadcast

\* Python's None as a fetcher's result
None == <<"None">>

\* no cache lookup has been made
NoLookup ==
    [pc |-> "idle", fn |-> "", key |-> "", tnow |-> 0, result |-> None,
     fetched |-> FALSE]

\* no AI analysis cached, no lookup running
CacheIdle == _ai_cache = <<>> /\ lookup = NoLookup

\* one request at a time: no concurrent invocation, nothing cached
NoFetch ==
    /\ _cache = <<>>
    /\ now = 0
    /\ inv = <<>>

Init ==
    /\ NoFetch
    /\ ScoreIdle /\ EngineIdle /\ ManagerIdle /\ CacheIdle
    /\ impl \in {"live", "gateway"}
    /\ market \in IF impl = "live" THEN LiveMarkets
                  ELSE [Symbols -> HashResidues]
    /\ pc = "idle"
    /\ entry = "route"
    /\ req = NoRequest
    /\ NoLocals
    /\ response = NoResponse
    /\ previous = NoResponse

\* ------------------------------------------------------------------------
\* Actions
\* ------------------------------------------------------------------------

\* a client posts a request; the gateway's generate_recommendations can also
\* be called without the route (as sample_recommendations does)
Request ==
    /\ pc = "idle"
    /\ req' \in Requests
    /\ entry' \in IF impl = "gateway" THEN {"route", "direct"} ELSE {"route"}
    /\ pc' = "start"
    /\ response' = NoResponse
    /\ previous' = NoResponse
    /\ UNCHANGED <<fetchVars, sideVars, impl, market, tierVars, scored, loopVars>>

\* index.py do_POST / FastAPI: the response has been sent, the server waits
\* for the next request
Respond ==
    /\ pc = "done"
    /\ pc' = "idle"
    /\ req' = NoRequest
    /\ entry' = "route"
    /\ response' = NoResponse
    /\ previous' = NoResponse
    /\ UNCHANGED <<fetchVars, sideVars, impl, market, tierVars, scored, loopVars>>

\* the same input is submitted again
Repeat ==
    /\ pc = "done"
    /\ previous = NoResponse
    /\ pc' = "start"
    /\ previous' = response
    /\ response' = NoResponse
    /\ UNCHANGED <<fetchVars, sideVars, impl, market, reqVars, tierVars, scored, loopVars>>

\* index.py 508-520: read the body, validate, classify, look up multipliers
LiveValidate ==
    /\ pc = "start" /\ impl = "live"
    /\ IF CapitalOutOfRange(req.total_capital)
       THEN /\ response' = ErrorResponse
            /\ pc' = "done"
            /\ UNCHANGED tierVars
       ELSE /\ capital' = req.total_capital
            /\ tier' = get_tier(req.total_capital)[1]
            /\ max_pos' = get_tier(req.total_capital)[2]
            /\ max_risk' = get_tier(req.total_capital)[3]
            /\ sm' = strat_mult(req.investment_strategy)
            /\ rm' = risk_mult_map(req.risk_tolerance)
            /\ pc' = "score"
            /\ UNCHANGED response
    /\ UNCHANGED <<fetchVars, sideVars, impl, market, reqVars, scored, loopVars, previous>>

\* main.py 219-223: create_recommendations rejects or calls the engine
GatewayRoute ==
    /\ pc = "start" /\ impl = "gateway" /\ entry = "route"
    /\ IF CapitalOutOfRange(req.total_capital)
       THEN response' = ErrorResponse /\ pc' = "done"
       ELSE pc' = "enter" /\ UNCHANGED response
    /\ UNCHANGED <<fetchVars, sideVars, impl, market, reqVars, tierVars, scored, loopVars, previous>>

\* main.py 93-114: clamp the capital, classify, look up multipliers
GatewayEnter ==
    /\ impl = "gateway"
    /\ pc = "enter" \/ (pc = "start" /\ entry = "direct")
    /\ capital' = ClampCapital(req.total_capital)
    /\ tier' = get_tier(capital')[1]
    /\ max_pos' = get_tier(capital')[2]
    /\ max_risk' = get_tier(capital')[3]
    /\ sm' = strat_mult(req.investment_strategy)
    /\ rm' = risk_mult_map(req.risk_tolerance)
    /\ pc' = "score"
    /\ UNCHANGED <<fetchVars, sideVars, impl, market, reqVars, scored, loopVars, response, previous>>

\* the catalog: ASX_STOCKS.items() iterates in insertion order
Catalog == [k \in 1..NumSymbols |-> k]

\* faulty variant: the ceiling is scaled by the request's risk multiplier
LivePassesRisk_ByTolerance(q, maxRisk) ==
    ~ RatLess(Rat(maxRisk * rm, 1000), LiveRiskScore(q))

\* the filter: if risk_score > max_risk: continue
LivePassesRisk(q, maxRisk) == ~ RatLess(Rat(maxRisk, 100), LiveRiskScore(q))

\* faulty variant: only a missing quote is skipped, a missing price is not
LiveKeep_NoPriceTest(q, maxRisk) == q # NoQuote /\ LivePassesRisk(q, maxRisk)

\* the two "continue" tests of the scoring loop, in the order of the code
LiveKeep(q, maxRisk) == HasPrice(q) /\ LivePassesRisk(q, maxRisk)

\* index.py 524-565: scored, for the symbols of cat in catalog order
LiveScoredOver(cat, mkt, maxRisk, smult, rmult) ==
    LET keep(sym) == LiveKeep(mkt[sym], maxRisk)
        syms == SelectSeq(cat, keep)
    IN  [k \in 1..Len(syms) |-> LiveCandidate(syms[k], mkt[syms[k]], smult, rmult)]

LiveScored(mkt, maxRisk, smult, rmult) ==
    LiveScoredOver(Catalog, mkt, maxRisk, smult, rmult)

LiveScore ==
    /\ pc = "score" /\ impl = "live"
    /\ scored' = LiveScored(market, max_risk, sm, rm)
    /\ pc' = "rank"
    /\ UNCHANGED <<fetchVars, sideVars, impl, market, reqVars, tierVars, loopVars, response, previous>>

\* main.py 117-139: scored, in catalog order
GatewayScored(mkt, maxRisk, smult, rmult) ==
    LET keep(sym) == GatewayPassesRisk(mkt[sym], maxRisk)
        syms == SelectSeq(Catalog, keep)
    IN  [k \in 1..Len(syms) |-> GatewayCandidate(syms[k], mkt[syms[k]], smult, rmult)]

GatewayScore ==
    /\ pc = "score" /\ impl = "gateway"
    /\ scored' = GatewayScored(market, max_risk, sm, rm)
    /\ pc' = "rank"
    /\ UNCHANGED <<fetchVars, sideVars, impl, market, reqVars, tierVars, loopVars, response, previous>>

\* faulty variant: the sorted list is not truncated
Picks_NoTruncate(sc, maxPos) == SortByScoreDesc(sc)

\* index.py 567-572, main.py 141-148: sort, truncate, initialise the loop
Picks(sc, maxPos) == Truncate(SortByScoreDesc(sc), maxPos)

\* faulty variant: the running total survives from the earlier call
Rank_StaleTotal ==
    /\ pc = "rank"
    /\ picks' = Picks(scored, max_pos)
    /\ total_score' = IF impl = "live" THEN LiveTotalScore(picks')
                      ELSE GatewayTotalScore(picks')
    /\ recs' = <<>>
    /\ total_invested' = previous.total_investment
    /\ i' = 1
    /\ pc' = "alloc"
    /\ UNCHANGED <<fetchVars, sideVars, impl, market, reqVars, tierVars, scored, response, previous>>

Rank ==
    /\ pc = "rank"
    /\ picks' = Picks(scored, max_pos)
    /\ total_score' = IF impl = "live" THEN LiveTotalScore(picks')
                      ELSE GatewayTotalScore(picks')
    /\ recs' = <<>>
    /\ total_invested' = 0
    /\ i' = 1
    /\ pc' = "alloc"
    /\ UNCHANGED <<fetchVars, sideVars, impl, market, reqVars, tierVars, scored, response, previous>>

\* faulty variant: the loop stops at the first pick that does not fit
AllocEffect_StopOnSkip(p, res) ==
    /\ total_invested' = IF res[3] THEN total_invested + res[2] ELSE total_invested
    /\ recs' = IF res[3] THEN Append(recs, Recommendation(p, res[1], res[2])) ELSE recs
    /\ i' = IF res[3] THEN i + 1 ELSE Len(picks) + 1

\* faulty variant: the cost is added to the running total before the budget test
AllocEffect_AddBeforeTest(p, res) ==
    /\ total_invested' = total_invested + res[2]
    /\ recs' = IF res[3] THEN Append(recs, Recommendation(p, res[1], res[2])) ELSE recs
    /\ i' = i + 1

\* faulty variant: a pick that does not fit takes back the allocation before it
\* and is tried again
AllocEffect_DropEarlier(p, res) ==
    IF res[3] \/ recs = <<>>
    THEN /\ total_invested' = IF res[3] THEN total_invested + res[2] ELSE total_invested
         /\ recs' = IF res[3] THEN Append(recs, Recommendation(p, res[1], res[2]))
                    ELSE recs
         /\ i' = i + 1
    ELSE /\ total_invested' = total_invested - recs[Len(recs)].recommended_allocation
         /\ recs' = SubSeq(recs, 1, Len(recs) - 1)
         /\ i' = i

\* the effect of one loop iteration on total_invested and recs
AllocEffect(p, res) ==
    /\ total_invested' = IF res[3] THEN total_invested + res[2] ELSE total_invested
    /\ recs' = IF res[3] THEN Append(recs, Recommendation(p, res[1], res[2])) ELSE recs
    /\ i' = i + 1

\* index.py 574-601: one iteration of "for p in picks"
LiveAllocStep ==
    /\ pc = "alloc" /\ impl = "live" /\ i <= Len(picks)
    /\ AllocEffect(picks[i], LiveAllocate(picks[i], capital, total_score, total_invested))
    /\ UNCHANGED <<fetchVars, sideVars, impl, market, pc, reqVars, tierVars, scored, picks, total_score,
                   response, previous>>

\* main.py 150-178: one iteration of "for pick in picks"
GatewayAllocStep ==
    /\ pc = "alloc" /\ impl = "gateway" /\ i <= Len(picks)
    /\ AllocEffect(picks[i],
                   GatewayAllocate(picks[i], capital, total_score, total_invested, Len(picks)))
    /\ UNCHANGED <<fetchVars, sideVars, impl, market, pc, reqVars, tierVars, scored, picks, total_score,
                   response, previous>>

\* faulty variant: an empty portfolio is reported as a failure
Portfolio_EmptyIsError(t, invested, rs, riskTolerance) ==
    [status |-> IF rs = <<>> THEN 500 ELSE 200, error |-> "", tier |-> t,
     total_investment |-> invested, expected_return |-> AvgReturn(rs),
     risk_level |-> riskTolerance, recommendations |-> rs]

\* index.py 603-636, main.py 180-190: the returned portfolio
Portfolio(t, invested, rs, riskTolerance) ==
    [status |-> 200, error |-> "", tier |-> t, total_investment |-> invested,
     expected_return |-> AvgReturn(rs), risk_level |-> riskTolerance,
     recommendations |-> rs]

\* faulty variant: the mean is taken over all picks, skipped ones included
Assemble_MeanOverPicks ==
    /\ pc = "alloc" /\ i > Len(picks)
    /\ response' = [Portfolio(tier, total_invested, recs, req.risk_tolerance)
                        EXCEPT !.expected_return = IF recs # <<>> THEN AvgReturn(picks) ELSE 0]
    /\ pc' = "done"
    /\ DropLocals
    /\ UNCHANGED <<fetchVars, sideVars, impl, market, reqVars, previous>>

\* the loop is over: build the response and return (the locals go away)
Assemble ==
    /\ pc = "alloc" /\ i > Len(picks)
    /\ response' = Portfolio(tier, total_invested, recs, req.risk_tolerance)
    /\ pc' = "done"
    /\ DropLocals
    /\ UNCHANGED <<fetchVars, sideVars, impl, market, reqVars, previous>>

Next ==
    \/ Request
    \/ Respond
    \/ Repeat
    \/ LiveValidate
    \/ GatewayRoute
    \/ GatewayEnter
    \/ LiveScore
    \/ GatewayScore
    \/ Rank
    \/ LiveAllocStep
    \/ GatewayAllocStep
    \/ Assemble

Spec == Init /\ [][Next]_vars

\* ------------------------------------------------------------------------
\* Concurrent invocations of the live server and their quote fetches
\* ------------------------------------------------------------------------

FetchInit ==
    /\ FetchIdle
    /\ ScoreIdle /\ EngineIdle /\ ManagerIdle /\ CacheIdle
    /\ impl = "live"
    /\ market = [sym \in Symbols |-> NoQuote]
    /\ pc = "idle"
    /\ entry = "route"
    /\ req = NoRequest
    /\ NoLocals
    /\ response = NoResponse
    /\ previous = NoResponse

\* do_POST on a request thread: the body has been read.  The request is
\* taken by the first free slot (the slots are interchangeable).
FetchRequest(n) ==
    /\ inv[n].pc = "idle"
    /\ \A m \in 1..(n - 1) : inv[m].pc # "idle"
    /\ \E r \in FetchRequests :
          inv' = [inv EXCEPT ![n] = [IdleInvocation EXCEPT !.pc = "start", !.req = r]]
    /\ UNCHANGED <<coreVars, sideVars, _cache, now>>

\* faulty variant: the range check comes after the quotes have been fetched
FetchValidate_Late(n) ==
    /\ inv[n].pc = "start"
    /\ inv' = [inv EXCEPT ![n].max_risk = get_tier(inv[n].req.total_capital)[3],
                           ![n].sm = strat_mult(inv[n].req.investment_strategy),
                           ![n].rm = risk_mult_map(inv[n].req.risk_tolerance),
                           ![n].th = [sym \in Fetched |-> "queued"],
                           ![n].pc = "fetch"]
    /\ UNCHANGED <<coreVars, sideVars, _cache, now>>

\* index.py 508-522 and 312-316: validate, classify, look up the
\* multipliers, then hand one task per symbol to the executor
FetchValidate(n) ==
    /\ inv[n].pc = "start"
    /\ IF CapitalOutOfRange(inv[n].req.total_capital)
       THEN inv' = [inv EXCEPT ![n].pc = "done", ![n].status = 400]
       ELSE inv' = [inv EXCEPT ![n].max_risk = get_tier(inv[n].req.total_capital)[3],
                               ![n].sm = strat_mult(inv[n].req.investment_strategy),
                               ![n].rm = risk_mult_map(inv[n].req.risk_tolerance),
                               ![n].th = [sym \in Fetched |-> "queued"],
                               ![n].pc = "fetch"]
    /\ UNCHANGED <<coreVars, sideVars, _cache, now>>

\* if cache_key in _cache: ts, data = ...; if now - ts < CACHE_TTL
CacheHit(sym, t) == _cache[sym] # NoEntry /\ t - _cache[sym].ts < CACHE_TTL

\* _fetch_quote_for_batch 296-304: read the clock, look in the cache; a hit
\* returns the cached data, a miss sends the request to Yahoo
TaskStart(n, sym) ==
    /\ inv[n].pc = "fetch" /\ inv[n].th[sym] = "queued"
    /\ IF CacheHit(sym, now)
       THEN inv' = [inv EXCEPT ![n].th[sym] = "done",
                               ![n].futures[sym] = _cache[sym].data]
       ELSE inv' = [inv EXCEPT ![n].th[sym] = "waiting", ![n].tnow[sym] = now]
    /\ UNCHANGED <<coreVars, sideVars, _cache, now>>

\* _fetch_quote_for_batch 305-309: Yahoo has answered; a quote is stored
\* under the time read before the request, and returned
TaskFinish(n, sym) ==
    /\ inv[n].pc = "fetch" /\ inv[n].th[sym] = "waiting"
    /\ \E quote \in UpstreamQuotes :
          /\ inv' = [inv EXCEPT ![n].th[sym] = "done", ![n].tnow[sym] = 0,
                                 ![n].futures[sym] = quote]
          /\ IF quote # NoQuote
             THEN _cache' = [_cache EXCEPT
                                ![sym] = [ts |-> inv[n].tnow[sym], data |-> quote]]
             ELSE UNCHANGED _cache
    /\ UNCHANGED <<coreVars, sideVars, now>>

\* faulty variant: the results are collected as soon as the first task is done
AllFetched_FirstOnly(n) == inv[n].th[1] = "done"

\* fetch_all_quotes 315-316: list(executor.map(...)) inside the with block
\* returns when every task has returned
AllFetched(n) == \A sym \in Fetched : inv[n].th[sym] = "done"

\* faulty variant: results is one module-level dict that every running
\* invocation reads
FetchCollect_GlobalResults(n) ==
    /\ inv[n].pc = "fetch"
    /\ AllFetched(n)
    /\ inv' = [m \in Invocations |->
                  IF m = n
                  THEN [inv[m] EXCEPT !.all_quotes = inv[n].futures, !.pc = "score"]
                  ELSE IF inv[m].pc \in {"fetch", "score"}
                  THEN [inv[m] EXCEPT !.all_quotes = inv[n].futures]
                  ELSE inv[m]]
    /\ UNCHANGED <<coreVars, sideVars, _cache, now>>

\* fetch_all_quotes 317-320: results[sym] = quote; return results
FetchCollect(n) ==
    /\ inv[n].pc = "fetch"
    /\ AllFetched(n)
    /\ inv' = [inv EXCEPT ![n].all_quotes = inv[n].futures, ![n].pc = "score"]
    /\ UNCHANGED <<coreVars, sideVars, _cache, now>>

\* index.py 524-565: the scoring loop over all_quotes; ranking and
\* allocation follow as in Rank and LiveAllocStep
FetchScore(n) ==
    /\ inv[n].pc = "score"
    /\ inv' = [inv EXCEPT
                  ![n].scored = LiveScoredOver(FetchCatalog, inv[n].all_quotes,
                                               inv[n].max_risk, inv[n].sm, inv[n].rm),
                  ![n].status = 200,
                  ![n].pc = "done"]
    /\ UNCHANGED <<coreVars, sideVars, _cache, now>>

\* the response has been sent; the request thread is free again
FetchRespond(n) ==
    /\ inv[n].pc = "done"
    /\ inv' = [inv EXCEPT ![n] = IdleInvocation]
    /\ UNCHANGED <<coreVars, sideVars, _cache, now>>

\* time passes, a cache lifetime at a time
Tick ==
    /\ now < MaxTicks * CACHE_TTL
    /\ now' = now + CACHE_TTL
    /\ UNCHANGED <<coreVars, sideVars, _cache, inv>>

FetchNext ==
    \/ \E n \in Invocations : FetchRequest(n)
    \/ \E n \in Invocations : FetchValidate(n)
    \/ \E n \in Invocations, sym \in Fetched : TaskStart(n, sym)
    \/ \E n \in Invocations, sym \in Fetched : TaskFinish(n, sym)
    \/ \E n \in Invocations : FetchCollect(n)
    \/ \E n \in Invocations : FetchScore(n)
    \/ \E n \in Invocations : FetchRespond(n)
    \/ Tick

FetchSpec == FetchInit /\ [][FetchNext]_vars

\* ------------------------------------------------------------------------
\* The live scoring loop on one quote at a time (index.py 525-565)
\* ------------------------------------------------------------------------

\* the request handler of the single-request machine is not running
CoreIdle ==
    /\ impl = "live"
    /\ market = [sym \in Symbols |-> NoQuote]
    /\ pc = "idle"
    /\ entry = "route"
    /\ req = NoRequest
    /\ NoLocals
    /\ response = NoResponse
    /\ previous = NoResponse

\* quotes Yahoo can report, prices in cents: the price inside, above and
\* below the 52-week range, the range empty or inverted, no previous close
ProbeQuotes ==
    { [price |-> p, previous_close |-> c, fifty_two_week_high |-> h,
       fifty_two_week_low |-> l] :
        p \in {500, 1000, 1100, 1600}, c \in {0, 800, 1000, 1100},
        h \in {1000, 1200}, l \in {800, 1200} }
    \cup {NoQuote, NoPriceQuote}

\* the max_risk that get_tier hands to the loop, one per tier
TierCeilings == { get_tier(c)[3] : c \in {Tier1Max, Tier2Max, Tier3Max, MaxCapital} }

\* the first symbol's quote is missing
ScoreInit ==
    /\ loop_quote = NoQuote
    /\ cand = NoCand
    /\ CoreIdle /\ NoFetch
    /\ EngineIdle /\ ManagerIdle /\ CacheIdle

\* index.py 526-565: one iteration of the loop over ASX_STOCKS
ScoreQuote ==
    /\ ~ cand.scored
    /\ \E maxRisk \in TierCeilings :
          cand' = IF ~ HasPrice(loop_quote)
                  THEN [NoCand EXCEPT !.scored = TRUE]
                  ELSE [base_return |-> LiveBaseReturn(loop_quote),
                        confidence  |-> LiveConfidence(loop_quote),
                        risk_score  |-> LiveRiskScore(loop_quote),
                        appended    |-> LiveKeep(loop_quote, maxRisk),
                        scored      |-> TRUE]
    /\ UNCHANGED <<coreVars, fetchVars, loop_quote, engineVars, managerVars, cacheVars>>

\* index.py 525-526: the loop goes on to the next symbol and its quote
NextQuote ==
    /\ cand.scored
    /\ loop_quote' \in ProbeQuotes
    /\ cand' = NoCand
    /\ UNCHANGED <<coreVars, fetchVars, engineVars, managerVars, cacheVars>>

ScoreNext ==
    \/ ScoreQuote
    \/ NextQuote

ScoreSpec == ScoreInit /\ [][ScoreNext]_vars

\* ------------------------------------------------------------------------
\* CapitalAwareRecommendationEngine: _score_stocks and _calculate_allocations
\* (capital_aware_engine.py).  Component scores and weights are in
\* hundredths, the total score in ten-thousandths, predicted returns in
\* tenths of a percent.
\* ------------------------------------------------------------------------

\* what the engine is given about one symbol: whether prices.get(symbol) and
\* predictions.get(symbol) exist, the predicted return and the confidence
\* of the prediction, whether indicators and sentiment exist, and the
\* results of _calculate_technical_score and _calculate_risk_score
EngineData ==
    { [price |-> TRUE,  prediction |-> TRUE,  pred_return |-> 100, confidence |-> 80,
       indicator |-> TRUE,  technical |-> 70, sent |-> TRUE,  sentiment_score |-> 50,
       risk |-> 20],
      [price |-> TRUE,  prediction |-> TRUE,  pred_return |-> 250, confidence |-> 60,
       indicator |-> FALSE, technical |-> 0,  sent |-> FALSE, sentiment_score |-> 0,
       risk |-> 40],
      [price |-> FALSE, prediction |-> TRUE,  pred_return |-> 0,   confidence |-> 80,
       indicator |-> FALSE, technical |-> 0,  sent |-> FALSE, sentiment_score |-> 0,
       risk |-> 0],
      [price |-> TRUE,  prediction |-> FALSE, pred_return |-> 0,   confidence |-> 0,
       indicator |-> TRUE,  technical |-> 70, sent |-> TRUE,  sentiment_score |-> 50,
       risk |-> 20] }

EngineStrategies == {"conservative", "balanced", "growth", "aggressive"}

\* lines 172-202: the dict scores of _calculate_stock_score
ComponentScores(d) ==
    ("prediction" :> Min2(d.pred_return \div 2, 100))
    @@ ("prediction_confidence" :> d.confidence)
    @@ ("technical" :> IF d.indicator THEN d.technical ELSE 50)
    @@ ("sentiment" :> IF d.sent THEN (d.sentiment_score + 100) \div 2 ELSE 50)
    @@ ("risk" :> 100 - d.risk)

\* lines 173-202: the dict weights of _calculate_stock_score
ComponentWeights(d) ==
    ("prediction" :> 35)
    @@ ("technical" :> IF d.indicator THEN 25 ELSE 15)
    @@ ("sentiment" :> IF d.sent THEN 20 ELSE 10)
    @@ ("risk" :> 20)

\* line 205: scores[k] * weights[k] raises KeyError for a key of scores
\* that weights does not have
WeightedSumRaises(scores, weights) == \E k \in DOMAIN scores : k \notin DOMAIN weights

\* line 205: sum(scores[k] * weights[k] for k in keys)
RECURSIVE WeightedSum(_, _, _)
WeightedSum(scores, weights, keys) ==
    IF keys = {} THEN 0
    ELSE LET k == CHOOSE x \in keys : TRUE
         IN  scores[k] * weights[k] + WeightedSum(scores, weights, keys \ {k})

\* _adjust_for_strategy, lines 291-325: the score as a rational number of
\* ten-thousandths, capped at 1.0
_adjust_for_strategy(base_score, risk, pred_return, strategy) ==
    LET f1 == CASE strategy = "conservative" -> IF risk > 60 THEN <<7, 10>> ELSE <<1, 1>>
                [] strategy = "growth"       -> IF pred_return > 150 THEN <<12, 10>> ELSE <<1, 1>>
                [] strategy = "aggressive"   -> IF pred_return > 200 THEN <<13, 10>> ELSE <<1, 1>>
                [] OTHER -> IF pred_return > 100 /\ pred_return < 200 /\ risk > 30 /\ risk < 60
                            THEN <<11, 10>> ELSE <<1, 1>>
        f2 == CASE strategy = "conservative" -> IF pred_return < 50 THEN <<11, 10>> ELSE <<1, 1>>
                [] strategy = "growth"       -> IF risk < 30 THEN <<9, 10>> ELSE <<1, 1>>
                [] OTHER -> <<1, 1>>
    IN  RatMin(Rat(base_score * f1[1] * f2[1], f1[2] * f2[2]), <<10000, 1>>)

\* _calculate_stock_score, lines 169-170: nothing to score
StockScoreInsufficient(d) == ~ d.price \/ ~ d.prediction

\* _calculate_stock_score raises, and _score_stocks (lines 153-154) logs
\* the error and goes on without an entry for the symbol
StockScoreRaises(d) ==
    /\ ~ StockScoreInsufficient(d)
    /\ WeightedSumRaises(ComponentScores(d), ComponentWeights(d))

\* _calculate_stock_score, lines 204-222: the dict returned
_calculate_stock_score(d, strategy) ==
    IF StockScoreInsufficient(d) THEN InsufficientData
    ELSE LET scores  == ComponentScores(d)
             total   == WeightedSum(scores, ComponentWeights(d), DOMAIN scores)
             adj     == _adjust_for_strategy(total, d.risk, d.pred_return, strategy)
         IN  [score            |-> RoundHalfEven(adj[1], adj[2]),
              risk_score       |-> d.risk,
              predicted_return |-> d.pred_return,
              confidence       |-> d.confidence]

\* _score_stocks, lines 140-156: the dict scores, symbol -> score_data
_score_stocks(symbols, data, strategy) ==
    [sym \in {symbols[k] : k \in { j \in 1..Len(symbols) :
                                       ~ StockScoreRaises(data[symbols[j]]) }}
        |-> _calculate_stock_score(data[sym], strategy)]

\* _calculate_allocations, lines 471-498: one amount (a rational number of
\* cents) per weight; pct is max_single_stock_percentage in hundredths
_calculate_allocations(selected_stocks, investable_capital, total_capital, pct) ==
    LET t == determine_capital_tier(total_capital)
        n == Len(selected_stocks)
        score_total == SumField(selected_stocks, "score")
        weights ==
            CASE t = 2 -> SubSeq(<<<<40, 100>>, <<35, 100>>, <<25, 100>>>>, 1, Min2(3, n))
              [] t \in {3, 4} ->
                    [k \in 1..n |-> Rat(selected_stocks[k].score, score_total)]
              [] OTHER -> [k \in 1..n |-> <<1, n>>]
        max_allocation == Rat(investable_capital * pct, 100)
    IN  IF t = 1 THEN << <<investable_capital, 1>> >>
        ELSE [k \in 1..Len(weights) |->
                 RatMin(Rat(weights[k][1] * investable_capital, weights[k][2]),
                        max_allocation)]

\* the number of stocks handed to _calculate_allocations in one call
MaxSelected == 3

\* the lists _select_stocks can hand over, each stock by its score_data:
\* every score is above 0.3
SelectedLists ==
    UNION { [1..n -> { [score |-> sc] : sc \in {4000, 8000} }] :
              n \in 1..MaxSelected }

\* brokerage_fee_fixed of RecommendationConfig, in cents
BrokerageFee == 500

EngineInit ==
    /\ EngineIdle
    /\ CoreIdle /\ NoFetch
    /\ ScoreIdle /\ ManagerIdle /\ CacheIdle

\* _score_stocks is called for two symbols
EngineScoreStocks ==
    /\ \E data \in [1..2 -> EngineData], strategy \in EngineStrategies :
          /\ engine_call' = [method |-> "_score_stocks", symbols |-> <<1, 2>>,
                              data |-> data, strategy |-> strategy]
          /\ engine_result' = _score_stocks(<<1, 2>>, data, strategy)
    /\ UNCHANGED <<coreVars, fetchVars, scoreVars, managerVars, cacheVars>>

\* _calculate_positions, lines 412-425: the fees are taken off and
\* _calculate_allocations is called
EngineCalculateAllocations ==
    /\ \E total_capital \in {30000, 100000, 300000, 800000},
          selected_stocks \in SelectedLists, pct \in {30, 50} :
          LET investable_capital == total_capital - BrokerageFee * Len(selected_stocks)
          IN  /\ engine_call' = [method |-> "_calculate_allocations",
                                  selected_stocks |-> selected_stocks,
                                  investable_capital |-> investable_capital,
                                  total_capital |-> total_capital,
                                  max_single_stock_percentage |-> pct]
              /\ engine_result' = _calculate_allocations(selected_stocks, investable_capital,
                                                         total_capital, pct)
    /\ UNCHANGED <<coreVars, fetchVars, scoreVars, managerVars, cacheVars>>

EngineNext ==
    \/ EngineScoreStocks
    \/ EngineCalculateAllocations

EngineSpec == EngineInit /\ [][EngineNext]_vars

\* ------------------------------------------------------------------------
\* ConnectionManager (websocket_manager.py)
\*
\* active_connections is the dict user_id -> list of websockets and
\* stock_subscriptions the dict symbol -> set of user ids; a dict is a
\* function whose DOMAIN is its set of keys.  broadcast is the position of
\* one broadcast_stock_update call: the set being iterated, the users the
\* iterator has not produced yet, the size the set had when the iterator
\* was created, and the sends that succeeded and failed so far.  The
\* manager is used by one caller at a time: no other method runs between
\* two steps of a broadcast.
\* ------------------------------------------------------------------------

Users == 1..NumUsers

Sockets == 1..NumSockets

\* symbols that clients subscribe to
StockSymbols == {"CBA.AX", "BHP.AX"}

\* the websockets of a list
ListItems(list) == { list[k] : k \in 1..Len(list) }

\* list.remove(websocket) guarded by "websocket in list": the first
\* occurrence is removed, an absent websocket leaves the list alone
ListRemove(list, websocket) ==
    IF websocket \in ListItems(list)
    THEN LET k == CHOOSE pos \in 1..Len(list) :
                      /\ list[pos] = websocket
                      /\ \A before \in 1..(pos - 1) :
                             list[before] # websocket
         IN  SubSeq(list, 1, k - 1) \o SubSeq(list, k + 1, Len(list))
    ELSE list

\* disconnect that forgets the connection but keeps the subscriptions
disconnect_KeepSubscriptions(conns, subs, websocket, user_id) ==
    IF user_id \in DOMAIN conns
    THEN LET list == ListRemove(conns[user_id], websocket)
         IN  IF list = <<>>
             THEN << [u \in DOMAIN conns \ {user_id} |-> conns[u]], subs >>
             ELSE << [conns EXCEPT ![user_id] = list], subs >>
    ELSE << conns, subs >>

\* ConnectionManager.disconnect: the pair of dicts after the call
disconnect(conns, subs, websocket, user_id) ==
    IF user_id \in DOMAIN conns
    THEN LET list == ListRemove(conns[user_id], websocket)
         IN  IF list = <<>>
             THEN << [u \in DOMAIN conns \ {user_id} |-> conns[u]],
                     [sym \in DOMAIN subs |-> subs[sym] \ {user_id}] >>
             ELSE << [conns EXCEPT ![user_id] = list], subs >>
    ELSE << conns, subs >>

\* the clean-up loop of send_personal_message: disconnect is called for
\* every websocket whose send raised, in the order of the failures
RECURSIVE CleanUp(_, _, _, _)
CleanUp(conns, subs, disconnected, user_id) ==
    IF disconnected = <<>>
    THEN << conns, subs >>
    ELSE LET after == disconnect(conns, subs, Head(disconnected), user_id)
         IN  CleanUp(after[1], after[2], Tail(disconnected), user_id)

\* ConnectionManager.send_personal_message: the pair of dicts after the
\* call when the sends to the websockets in failing raise
send_personal_message(conns, subs, user_id, failing) ==
    IF user_id \in DOMAIN conns
    THEN CleanUp(conns, subs,
                 SelectSeq(conns[user_id], LAMBDA ws : ws \in failing),
                 user_id)
    ELSE << conns, subs >>

\* the websockets connected at the moment, under any user
Connected ==
    UNION { ListItems(active_connections[u]) : u \in DOMAIN active_connections }

ManagerInit ==
    /\ CoreIdle
    /\ NoFetch
    /\ ScoreIdle
    /\ EngineIdle
    /\ ManagerIdle
    /\ CacheIdle

\* ConnectionManager.connect: a websocket that is accepted is appended to
\* the user's list, which is created when the user had none
Connect ==
    /\ broadcast.pc = "idle"
    /\ \E websocket \in Sockets \ Connected, user_id \in Users :
           active_connections' =
               IF user_id \in DOMAIN active_connections
               THEN [active_connections EXCEPT
                         ![user_id] = Append(@, websocket)]
               ELSE active_connections @@ (user_id :> << websocket >>)
    /\ UNCHANGED <<coreVars, fetchVars, scoreVars, engineVars, cacheVars,
                   stock_subscriptions, broadcast>>

\* ConnectionManager.disconnect called by the endpoint
Disconnect ==
    /\ broadcast.pc = "idle"
    /\ \E websocket \in Sockets, user_id \in Users :
           LET after == disconnect(active_connections, stock_subscriptions,
                                   websocket, user_id)
           IN  /\ active_connections' = after[1]
               /\ stock_subscriptions' = after[2]
    /\ UNCHANGED <<coreVars, fetchVars, scoreVars, engineVars, cacheVars,
                   broadcast>>

\* ConnectionManager.subscribe_to_stock
SubscribeToStock ==
    /\ broadcast.pc = "idle"
    /\ \E user_id \in Users, symbol \in StockSymbols :
           stock_subscriptions' =
               IF symbol \in DOMAIN stock_subscriptions
               THEN [stock_subscriptions EXCEPT
                         ![symbol] = @ \cup {user_id}]
               ELSE stock_subscriptions @@ (symbol :> {user_id})
    /\ UNCHANGED <<coreVars, fetchVars, scoreVars, engineVars, cacheVars,
                   active_connections, broadcast>>

\* ConnectionManager.unsubscribe_from_stock
UnsubscribeFromStock ==
    /\ broadcast.pc = "idle"
    /\ \E user_id \in Users, symbol \in StockSymbols :
           /\ symbol \in DOMAIN stock_subscriptions
           /\ stock_subscriptions' =
                  [stock_subscriptions EXCEPT ![symbol] = @ \ {user_id}]
    /\ UNCHANGED <<coreVars, fetchVars, scoreVars, engineVars, cacheVars,
                   active_connections, broadcast>>

\* ConnectionManager.send_personal_message called on its own (an alert):
\* any of the user's websockets may fail
SendPersonalMessage ==
    /\ broadcast.pc = "idle"
    /\ \E user_id \in DOMAIN active_connections :
       \E failing \in SUBSET ListItems(active_connections[user_id]) :
           LET after == send_personal_message(active_connections,
                                              stock_subscriptions,
                                              user_id, failing)
           IN  /\ active_connections' = after[1]
               /\ stock_subscriptions' = after[2]
    /\ UNCHANGED <<coreVars, fetchVars, scoreVars, engineVars, cacheVars,
                   broadcast>>

\* broadcast_stock_update is called: a symbol without a subscription set
\* returns at once, otherwise an iterator over the set is created
BroadcastStart ==
    /\ broadcast.pc = "idle"
    /\ \E symbol \in StockSymbols :
           broadcast' =
               IF symbol \in DOMAIN stock_subscriptions
               THEN [pc |-> "running", symbol |-> symbol,
                     subscribers |-> stock_subscriptions[symbol],
                     todo |-> stock_subscriptions[symbol],
                     size |-> Cardinality(stock_subscriptions[symbol]),
                     delivered |-> {}, failed |-> {}]
               ELSE [NoBroadcast EXCEPT !.pc = "done", !.symbol = symbol]
    /\ UNCHANGED <<coreVars, fetchVars, scoreVars, engineVars, cacheVars,
                   active_connections, stock_subscriptions>>

\* one turn of the loop "for user_id in self.stock_subscriptions[symbol]":
\* the iterator raises RuntimeError when the set no longer has the size
\* it had when the iterator was created, ends when every user has been
\* produced, and otherwise produces a user (in the set's own order) to
\* whom send_personal_message sends
BroadcastStep ==
    /\ broadcast.pc = "running"
    /\ IF Cardinality(stock_subscriptions[broadcast.symbol]) # broadcast.size
       THEN /\ broadcast' = [broadcast EXCEPT !.pc = "raised"]
            /\ UNCHANGED <<active_connections, stock_subscriptions>>
       ELSE IF broadcast.todo = {}
       THEN /\ broadcast' = [broadcast EXCEPT !.pc = "done"]
            /\ UNCHANGED <<active_connections, stock_subscriptions>>
       ELSE \E user_id \in broadcast.todo :
            \E failing \in SUBSET (IF user_id \in DOMAIN active_connections
                                   THEN ListItems(active_connections[user_id])
                                   ELSE {}) :
                LET sockets == IF user_id \in DOMAIN active_connections
                               THEN ListItems(active_connections[user_id])
                               ELSE {}
                    after == send_personal_message(active_connections,
                                                   stock_subscriptions,
                                                   user_id, failing)
                IN  /\ active_connections' = after[1]
                    /\ stock_subscriptions' = after[2]
                    /\ broadcast' =
                           [broadcast EXCEPT
                                !.todo = @ \ {user_id},
                                !.delivered = @ \cup
                                    { <<user_id, ws>> : ws \in sockets \ failing },
                                !.failed = @ \cup
                                    { <<user_id, ws>> : ws \in failing }]
    /\ UNCHANGED <<coreVars, fetchVars, scoreVars, engineVars, cacheVars>>

\* the call is over: it returned or its RuntimeError reached the caller
BroadcastReturn ==
    /\ broadcast.pc \in {"done", "raised"}
    /\ broadcast' = NoBroadcast
    /\ UNCHANGED <<coreVars, fetchVars, scoreVars, engineVars, cacheVars,
                   active_connections, stock_subscriptions>>

ManagerNext ==
    \/ Connect
    \/ Disconnect
    \/ SubscribeToStock
    \/ UnsubscribeFromStock
    \/ SendPersonalMessage
    \/ BroadcastStart
    \/ BroadcastStep
    \/ BroadcastReturn

ManagerSpec == ManagerInit /\ [][ManagerNext]_vars

\* ------------------------------------------------------------------------
\* The TTL caches of index.py: _get_cached and _fetch_quote_for_batch on
\* _cache, _get_ai_cached on _ai_cache.
\*
\* A cache is a dict key -> (timestamp, data): a function whose DOMAIN is
\* the set of keys present, with pairs <<ts, data>> as values.  lookup is
\* the position of one call: the function, its key, its local now, whether
\* the fetcher was invoked and what the call returned.  The clock moves
\* between calls and while a fetcher is running, through the instants
\* just before and at each multiple of CACHE_TTL.
\* ------------------------------------------------------------------------

AI_CACHE_TTL == 900

CacheFns == {"_get_cached", "_fetch_quote_for_batch", "_get_ai_cached"}

\* the keys each function is called with: fetch_live_quote and
\* _fetch_quote_for_batch share 'quote_' + symbol, fetch_live_history uses
\* 'hist_' + symbol + '_' + range, ai_analyze_stock 'ai_' + symbol
KeysOf(fn) ==
    CASE fn = "_get_cached" -> {"quote_CBA.AX", "hist_CBA.AX_1mo"}
      [] fn = "_fetch_quote_for_batch" -> {"quote_CBA.AX"}
      [] fn = "_get_ai_cached" -> {"ai_CBA.AX"}

\* the TTL each function compares the age with
TTLOf(fn) == IF fn = "_get_ai_cached" THEN AI_CACHE_TTL ELSE CACHE_TTL

\* what the fetcher of a key returns when it succeeds
Payloads(key) == { <<"data", key>> }

\* the values of time.time() that the model visits
Instants ==
    {0} \cup { k * CACHE_TTL + d : k \in 1..MaxPeriods, d \in {-1, 0} }

\* an entry as old as the TTL counts as fresh
Fresh_Inclusive(ts, tnow, ttl) == tnow - ts <= ttl

\* "if now - ts < TTL"
Fresh(ts, tnow, ttl) == tnow - ts < ttl

\* the fetcher's result is stored whatever it is
Store_Always(cache, key, tnow, data) ==
    [k \in DOMAIN cache \cup {key} |->
        IF k = key THEN <<tnow, data>> ELSE cache[k]]

\* "if data is not None: cache[key] = (now, data)"
Store(cache, key, tnow, data) ==
    IF data # None
    THEN [k \in DOMAIN cache \cup {key} |->
             IF k = key THEN <<tnow, data>> ELSE cache[k]]
    ELSE cache

\* the dict a function works on
CacheOf(fn) == IF fn = "_get_ai_cached" THEN _ai_cache ELSE _cache

CacheInit ==
    /\ CoreIdle
    /\ _cache = <<>>
    /\ now = 0
    /\ inv = <<>>
    /\ ScoreIdle
    /\ EngineIdle
    /\ ManagerIdle
    /\ CacheIdle

\* a call of one of the three functions up to the fetcher: the clock is
\* read, a fresh entry is returned, anything else invokes the fetcher
LookupStart ==
    /\ lookup.pc \in {"idle", "returned"}
    /\ \E fn \in CacheFns :
       \E key \in KeysOf(fn) :
           lookup' =
               IF /\ key \in DOMAIN CacheOf(fn)
                  /\ Fresh(CacheOf(fn)[key][1], now, TTLOf(fn))
               THEN [pc |-> "returned", fn |-> fn, key |-> key, tnow |-> now,
                     result |-> CacheOf(fn)[key][2], fetched |-> FALSE]
               ELSE [pc |-> "fetching", fn |-> fn, key |-> key, tnow |-> now,
                     result |-> None, fetched |-> TRUE]
    /\ UNCHANGED <<coreVars, scoreVars, engineVars, managerVars,
                   _cache, _ai_cache, now, inv>>

\* the fetcher returns data or None; data is stored under the time read
\* at the start of the call and the fetcher's result is returned.  An AI
\* fetcher that fails inside _call_ai leaves '_last_error' in _ai_cache.
FetcherReturns ==
    /\ lookup.pc = "fetching"
    /\ \E data \in Payloads(lookup.key) \cup {None} :
           /\ lookup' = [lookup EXCEPT !.pc = "returned", !.result = data]
           /\ IF lookup.fn = "_get_ai_cached"
              THEN /\ \/ _ai_cache' =
                             Store(_ai_cache, lookup.key, lookup.tnow, data)
                       \/ /\ data = None
                          /\ _ai_cache' =
                                 [k \in DOMAIN _ai_cache \cup {"_last_error"} |->
                                     IF k = "_last_error"
                                     THEN <<now, "error">>
                                     ELSE _ai_cache[k]]
                   /\ UNCHANGED _cache
              ELSE /\ _cache' = Store(_cache, lookup.key, lookup.tnow, data)
                   /\ UNCHANGED _ai_cache
    /\ UNCHANGED <<coreVars, scoreVars, engineVars, managerVars, now, inv>>

\* time passes
ClockAdvances ==
    /\ \E t \in Instants :
           /\ t > now
           /\ now' = t
    /\ UNCHANGED <<coreVars, scoreVars, engineVars, managerVars,
                   _cache, _ai_cache, lookup, inv>>

CacheNext ==
    \/ LookupStart
    \/ FetcherReturns
    \/ ClockAdvances

CacheSpec == CacheInit /\ [][CacheNext]_vars

\* ------------------------------------------------------------------------
\* Python floats: IEEE-754 doubles with round-to-nearest-even, as far as
\* the gateway's scoring needs them (positive values and zero, no
\* overflow).  A double is [m, e] with value m * 2^e, where m is a natural
\* number of exactly 53 bits (or zero); natural numbers of that size are
\* little-endian sequences of 13-bit limbs.
\* ------------------------------------------------------------------------

Limb == 8192

LimbBits == 13

MantissaBits == 53

RECURSIVE Pow2(_)
Pow2(bits) == IF bits = 0 THEN 1 ELSE 2 * Pow2(bits - 1)

RECURSIVE BitLen(_)
BitLen(small) == IF small = 0 THEN 0 ELSE 1 + BitLen(small \div 2)

RECURSIVE BigTrim(_)
BigTrim(big) ==
    IF big # <<>> /\ big[Len(big)] = 0
    THEN BigTrim(SubSeq(big, 1, Len(big) - 1))
    ELSE big

RECURSIVE BigFromInt(_)
BigFromInt(small) ==
    IF small = 0 THEN <<>>
    ELSE <<small % Limb>> \o BigFromInt(small \div Limb)

RECURSIVE BigAdd(_, _, _)
BigAdd(big1, big2, carry) ==
    IF big1 = <<>> /\ big2 = <<>>
    THEN BigFromInt(carry)
    ELSE LET d1  == IF big1 = <<>> THEN 0 ELSE Head(big1)
             d2  == IF big2 = <<>> THEN 0 ELSE Head(big2)
             sum == d1 + d2 + carry
         IN  <<sum % Limb>>
                 \o BigAdd(IF big1 = <<>> THEN <<>> ELSE Tail(big1),
                           IF big2 = <<>> THEN <<>> ELSE Tail(big2),
                           sum \div Limb)

\* big * small + carry, for small below 2^17
RECURSIVE BigMulSmall(_, _, _)
BigMulSmall(big, small, carry) ==
    IF big = <<>>
    THEN BigFromInt(carry)
    ELSE LET prod == Head(big) * small + carry
         IN  <<prod % Limb>> \o BigMulSmall(Tail(big), small, prod \div Limb)

RECURSIVE BigMul(_, _)
BigMul(big1, big2) ==
    IF big2 = <<>> THEN <<>>
    ELSE BigAdd(BigMulSmall(big1, Head(big2), 0),
                <<0>> \o BigMul(big1, Tail(big2)), 0)

\* <<quotient, remainder>> of big by small, for small below 2^17
RECURSIVE BigDivSmall(_, _)
BigDivSmall(big, small) ==
    IF big = <<>>
    THEN << <<>>, 0 >>
    ELSE LET high == BigDivSmall(Tail(big), small)
             part == high[2] * Limb + Head(big)
         IN  << <<part \div small>> \o high[1], part % small >>

\* big * 2^bits
BigShl(big, bits) ==
    [k \in 1..(bits \div LimbBits) |-> 0]
        \o BigMulSmall(big, Pow2(bits % LimbBits), 0)

\* <<floor(big / 2^bits), whether a one bit was dropped>>
BigShr(big, bits) ==
    LET limbs   == bits \div LimbBits
        dropped == SubSeq(big, 1, Min2(limbs, Len(big)))
        rest    == BigDivSmall(SubSeq(big, limbs + 1, Len(big)),
                               Pow2(bits % LimbBits))
    IN  << BigTrim(rest[1]),
           rest[2] # 0 \/ \E k \in 1..Len(dropped) : dropped[k] # 0 >>

\* the number of bits of a trimmed number
BigBits(big) ==
    IF big = <<>> THEN 0
    ELSE LimbBits * (Len(big) - 1) + BitLen(big[Len(big)])

BigIsOdd(big) == big # <<>> /\ Head(big) % 2 = 1

\* big1 < big2 for trimmed numbers
BigLess(big1, big2) ==
    \/ Len(big1) < Len(big2)
    \/ /\ Len(big1) = Len(big2)
       /\ \E k \in 1..Len(big1) :
              /\ big1[k] < big2[k]
              /\ \A j \in (k + 1)..Len(big1) : big1[j] = big2[j]

DoubleZero == [m |-> <<>>, e |-> 0]

\* the double nearest to big * 2^exp (plus a little, when sticky), ties to
\* the even mantissa; big is not zero
DoubleRound(big, exp, sticky) ==
    LET num  == BigTrim(big)
        bits == BigBits(num)
    IN  IF bits <= MantissaBits
        THEN [m |-> BigTrim(BigShl(num, MantissaBits - bits)),
              e |-> exp - (MantissaBits - bits)]
        ELSE LET cut     == BigShr(num, bits - MantissaBits - 1)
                 guard   == BigIsOdd(cut[1])
                 below   == cut[2] \/ sticky
                 floor   == BigShr(cut[1], 1)[1]
                 up      == guard /\ (below \/ BigIsOdd(floor))
                 rounded == IF up THEN BigTrim(BigAdd(floor, <<1>>, 0))
                            ELSE floor
             IN  IF BigBits(rounded) > MantissaBits
                 THEN [m |-> BigShr(rounded, 1)[1],
                       e |-> exp + (bits - MantissaBits) + 1]
                 ELSE [m |-> rounded, e |-> exp + (bits - MantissaBits)]

\* the double of the quotient num / den of two small naturals: a float
\* literal such as 0.60 (60 / 100) or a true division int / int
DoubleOf(num, den) ==
    IF num = 0 THEN DoubleZero
    ELSE LET quot == BigDivSmall(BigShl(BigFromInt(num), 5 * LimbBits), den)
         IN  DoubleRound(quot[1], 0 - 5 * LimbBits, quot[2] # 0)

\* x * y
DoubleMul(x, y) ==
    IF x.m = <<>> \/ y.m = <<>> THEN DoubleZero
    ELSE DoubleRound(BigMul(x.m, y.m), x.e + y.e, FALSE)

\* x + y
DoubleAdd(x, y) ==
    IF x.m = <<>> THEN y
    ELSE IF y.m = <<>> THEN x
    ELSE LET exp == Min2(x.e, y.e)
         IN  DoubleRound(BigAdd(BigShl(x.m, x.e - exp),
                                BigShl(y.m, y.e - exp), 0),
                         exp, FALSE)

\* x < y
DoubleLess(x, y) ==
    IF x.m = <<>> THEN y.m # <<>>
    ELSE IF y.m = <<>> THEN FALSE
    ELSE \/ x.e < y.e
         \/ x.e = y.e /\ BigLess(x.m, y.m)

\* main.py 120-129 in doubles: base_return = 8.0 + hash % 15,
\* confidence = 0.60 + (hash % 30) / 100,
\* score = base_return * multiplier * risk_mult * confidence, evaluated
\* from the left; the multipliers are given in tenths
GatewayDoubleScore(h, smult, rmult) ==
    LET base_return == DoubleAdd(DoubleOf(8, 1), DoubleOf(h.ret, 1))
        confidence  == DoubleAdd(DoubleOf(60, 100), DoubleOf(h.conf, 100))
        adj_return  == DoubleMul(DoubleMul(base_return, DoubleOf(smult, 10)),
                                 DoubleOf(rmult, 10))
    IN  DoubleMul(adj_return, confidence)

\* ------------------------------------------------------------------------
\* The gateway's generate_recommendations called for one market and one
\* capital under different risk tolerances and strategies, in the steps of
\* Spec.  The scores and their comparison in the sort are doubles, as in
\* the code; the allocation is computed from the exact value of each
\* score, as in GatewayAllocate.
\* ------------------------------------------------------------------------

\* residues whose scores are equal as real numbers with different factors:
\* (8 + 0) * 0.75 and (8 + 2) * 0.60
StyleResidues ==
    { [ret |-> 0, conf |-> 15, risk |-> 0],
      [ret |-> 2, conf |-> 0,  risk |-> 0] }

\* capitals of tier 1 (one position) and tier 2 (three positions), in cents
StyleCapitals == {30000, 100000}

\* every pair of a recognized risk tolerance and a recognized strategy
StyleChoices ==
    {"very_low", "low", "moderate", "high", "very_high"}
        \X {"conservative", "balanced", "growth", "aggressive"}

\* the dict appended to scored, with the score as the double the code holds
StyleCandidate(sym, h, smult, rmult) ==
    GatewayCandidate(sym, h, smult, rmult)
        @@ [double |-> GatewayDoubleScore(h, smult, rmult)]

\* main.py 117-139: scored, in catalog order
StyleScored(mkt, maxRisk, smult, rmult) ==
    LET keep(sym) == GatewayPassesRisk(mkt[sym], maxRisk)
        syms == SelectSeq(Catalog, keep)
    IN  [k \in 1..Len(syms) |-> StyleCandidate(syms[k], mkt[syms[k]], smult, rmult)]

\* scored.sort(key=score, reverse=True) on doubles: stable, an element is
\* placed after every earlier element whose score is not smaller
RECURSIVE InsertByDouble(_, _)
InsertByDouble(sorted, x) ==
    IF sorted = <<>> THEN <<x>>
    ELSE IF DoubleLess(Head(sorted).double, x.double) THEN <<x>> \o sorted
    ELSE <<Head(sorted)>> \o InsertByDouble(Tail(sorted), x)

RECURSIVE SortByDoubleDesc(_)
SortByDoubleDesc(s) ==
    IF s = <<>> THEN <<>>
    ELSE InsertByDouble(SortByDoubleDesc(SubSeq(s, 1, Len(s) - 1)), s[Len(s)])

StyleInit ==
    /\ NoFetch
    /\ ScoreIdle /\ EngineIdle /\ ManagerIdle /\ CacheIdle
    /\ impl = "gateway"
    /\ market \in [Symbols -> StyleResidues]
    /\ pc = "idle"
    /\ entry = "route"
    /\ req = NoRequest
    /\ NoLocals
    /\ response = NoResponse
    /\ previous = NoResponse

\* a client posts a request with a valid capital
StyleRequest ==
    /\ pc = "idle"
    /\ \E c \in StyleCapitals, choice \in StyleChoices :
           req' = [total_capital |-> c, risk_tolerance |-> choice[1],
                   investment_strategy |-> choice[2]]
    /\ pc' = "start"
    /\ UNCHANGED <<fetchVars, sideVars, impl, market, entry, tierVars, scored,
                   loopVars, response, previous>>

\* main.py 117-139 with the scores as doubles
StyleScore ==
    /\ pc = "score" /\ impl = "gateway"
    /\ scored' = StyleScored(market, max_risk, sm, rm)
    /\ pc' = "rank"
    /\ UNCHANGED <<fetchVars, sideVars, impl, market, reqVars, tierVars, loopVars,
                   response, previous>>

\* main.py 141-148: the sort compares the doubles
StyleRank ==
    /\ pc = "rank"
    /\ picks' = Truncate(SortByDoubleDesc(scored), max_pos)
    /\ total_score' = GatewayTotalScore(picks')
    /\ recs' = <<>>
    /\ total_invested' = 0
    /\ i' = 1
    /\ pc' = "alloc"
    /\ UNCHANGED <<fetchVars, sideVars, impl, market, reqVars, tierVars, scored,
                   response, previous>>

\* the same capital is submitted again with another risk tolerance or
\* strategy
StyleChange ==
    /\ pc = "done"
    /\ previous = NoResponse
    /\ \E choice \in StyleChoices :
           /\ choice # <<req.risk_tolerance, req.investment_strategy>>
           /\ req' = [req EXCEPT !.risk_tolerance = choice[1],
                                 !.investment_strategy = choice[2]]
    /\ previous' = response
    /\ response' = NoResponse
    /\ pc' = "start"
    /\ UNCHANGED <<fetchVars, sideVars, impl, market, entry, tierVars, scored,
                   loopVars>>

StyleNext ==
    \/ StyleRequest
    \/ GatewayRoute
    \/ GatewayEnter
    \/ StyleScore
    \/ StyleRank
    \/ GatewayAllocStep
    \/ Assemble
    \/ StyleChange
    \/ Respond

StyleSpec == StyleInit /\ [][StyleNext]_vars

\* ------------------------------------------------------------------------
\* Properties
\* ------------------------------------------------------------------------

\* a call has returned a portfolio
Returned == pc = "done" /\ response.status = 200

\* the symbol has candidate data: a quote with a price (live), always (gateway)
Priced(sym) == impl = "gateway" \/ HasPrice(market[sym])

\* the candidate's unrounded risk score, in the server's own arithmetic, is
\* above the ceiling
RiskAbove(sym, ceiling) ==
    /\ Priced(sym)
    /\ IF impl = "live" THEN RatLess(Rat(ceiling, 100), LiveRiskScore(market[sym]))
       ELSE GatewayRiskScore(market[sym]) > ceiling

\* the tier table of the specification, capital in cents
SpecTier(c) ==
    IF c <= 50000 THEN <<1, 1, 50>>
    ELSE IF c <= 200000 THEN <<2, 3, 60>>
    ELSE IF c <= 500000 THEN <<3, 7, 70>>
    ELSE <<4, 15, 80>>

\* C1: for a valid request (50 <= total_capital <= 10000) the returned
\* recommended_allocation values sum to at most total_capital, and the
\* reported total_investment is that sum.
C1_NeverOverspend ==
    (Returned /\ req.total_capital >= 5000 /\ req.total_capital <= 1000000) =>
        /\ SumField(response.recommendations, "recommended_allocation")
               <= req.total_capital
        /\ response.total_investment
               = SumField(response.recommendations, "recommended_allocation")

\* C1 witness: a returned portfolio of two or more positions that spends
\* the capital to the cent
C1_Witness ==
    /\ Returned
    /\ Len(response.recommendations) >= 2
    /\ response.total_investment = req.total_capital

\* C2: every recommendation, emitted or returned, has an integer number of
\* shares >= 1 and an allocation equal to shares x current_price.
C2_WholeShares ==
    /\ \A k \in 1..Len(recs) :
          /\ recs[k].recommended_shares \in Nat \ {0}
          /\ recs[k].recommended_allocation
                 = recs[k].recommended_shares * recs[k].current_price
    /\ \A k \in 1..Len(response.recommendations) :
          LET r == response.recommendations[k]
          IN  /\ r.recommended_shares \in Nat \ {0}
              /\ r.recommended_allocation = r.recommended_shares * r.current_price

\* C2 witness: a single returned position of several shares that leaves
\* part of the capital unspent
C2_Witness ==
    /\ Returned
    /\ \E k \in 1..Len(response.recommendations) :
          /\ response.recommendations[k].recommended_shares >= 2
          /\ response.recommendations[k].recommended_allocation < req.total_capital
          /\ Len(response.recommendations) = 1

\* C3: the number of returned recommendations is at most max_positions of
\* the tier of total_capital, whatever the number of candidates.
C3_MaxPositions ==
    /\ Returned =>
          Len(response.recommendations) <= SpecTier(req.total_capital)[2]
    /\ pc = "alloc" => Len(recs) <= SpecTier(req.total_capital)[2]

\* C3 witness: more candidates passed the risk filter than the tier allows,
\* and the loop has filled every allowed position
C3_Witness ==
    /\ pc = "alloc" /\ i > Len(picks)
    /\ Len(scored) > SpecTier(req.total_capital)[2]
    /\ Len(recs) = SpecTier(req.total_capital)[2]

\* C4: a candidate whose risk_score exceeds the max_risk of the requester's
\* tier is in no returned recommendation; the filter runs before ranking
\* (scored holds exactly the priced catalog symbols at or below the ceiling) and
\* the ceiling is the tier's alone, for every risk_tolerance and strategy.
C4_RiskCeiling ==
    LET ceiling == SpecTier(req.total_capital)[3]
    IN  /\ Returned =>
              \A k \in 1..Len(response.recommendations) :
                  ~ RiskAbove(response.recommendations[k].symbol, ceiling)
        /\ pc \in {"rank", "alloc"} =>
              /\ \A sym \in Symbols :
                     (\E k \in 1..Len(scored) : scored[k].symbol = sym)
                         <=> (Priced(sym) /\ ~ RiskAbove(sym, ceiling))
              /\ \A k \in 1..Len(picks) : ~ RiskAbove(picks[k].symbol, ceiling)
              /\ \A k \in 1..Len(recs) : ~ RiskAbove(recs[k].symbol, ceiling)

\* C4 witness: a request with a raised risk multiplier lost a candidate to
\* the ceiling and still returned a position
C4_Witness ==
    /\ Returned
    /\ req.risk_tolerance = "very_high"
    /\ \E sym \in Symbols : RiskAbove(sym, SpecTier(req.total_capital)[3])
    /\ Len(response.recommendations) >= 1

\* C5: a request with total_capital below 50 or above 10000 gets the
\* validation error with status 400 and no recommendation set; a request
\* with a capital in range, 50 and 10000 included, is not rejected.
\* PortfolioConstraints.validate_capital accepts the same range.
C5_CapitalValidation ==
    /\ pc = "start" =>
          (validate_capital(req.total_capital) = "ok"
              <=> (req.total_capital >= 5000 /\ req.total_capital <= 1000000))
    /\ (pc = "done" /\ entry = "route") =>
        IF req.total_capital < 5000 \/ req.total_capital > 1000000
        THEN /\ response.status = 400
             /\ response.error = "Capital must be between $50 and $10,000"
             /\ response.recommendations = <<>>
        ELSE response.status = 200

\* C5 witness: a request one cent above the maximum was rejected
C5_Witness ==
    /\ pc = "done" /\ entry = "route"
    /\ req.total_capital = 1000001
    /\ response.status = 400

\* C6: the capital used for tier classification and allocation is exactly
\* the caller-supplied total_capital in every invocation of
\* generate_recommendations; an out-of-range value is never clamped.
C6_CapitalAsSupplied ==
    pc \in {"score", "rank", "alloc"} => capital = req.total_capital

\* C7: the classifier is total on the capital domain with boundaries
\* inclusive on the lower tier: <= 500 gives (1, 1, 0.50), <= 2000 gives
\* (2, 3, 0.60), <= 5000 gives (3, 7, 0.70), above gives (4, 15, 0.80); the
\* engine's _determine_capital_tier and its limit tables agree.
C7_TierTable ==
    pc \in {"score", "rank", "alloc"} =>
        /\ <<tier, max_pos, max_risk>> =
              (IF capital <= 50000 THEN <<1, 1, 50>>
               ELSE IF capital <= 200000 THEN <<2, 3, 60>>
               ELSE IF capital <= 500000 THEN <<3, 7, 70>>
               ELSE <<4, 15, 80>>)
        /\ capital = 50000 => tier = 1
        /\ capital = 200000 => tier = 2
        /\ capital = 500000 => tier = 3
        /\ determine_capital_tier(capital) = tier
        /\ get_max_positions(determine_capital_tier(capital)) = max_pos
        /\ get_max_risk_for_tier(determine_capital_tier(capital)) = max_risk

\* C7 witness: the boundary capital 2000 was classified
C7_Witness == pc = "score" /\ capital = 200000 /\ tier = 2

C9_Picks ==
    pc = "alloc" =>
        /\ Len(picks) = Min2(Len(scored), SpecTier(capital)[2])
        /\ \A j \in 1..Len(picks) : \E k \in 1..Len(scored) : scored[k] = picks[j]
        /\ \A j, k \in 1..Len(picks) :
              j < k =>
                  \/ RatLess(picks[k].score, picks[j].score)
                  \/ (picks[k].score = picks[j].score
                         /\ picks[j].symbol < picks[k].symbol)
        /\ \A k \in 1..Len(scored) :
              (\A j \in 1..Len(picks) : picks[j] # scored[k]) =>
                  \A j \in 1..Len(picks) :
                      \/ RatLess(scored[k].score, picks[j].score)
                      \/ (scored[k].score = picks[j].score
                             /\ picks[j].symbol < scored[k].symbol)

\* C9 witness: a tie in score between a pick and a candidate left out
C9_Witness ==
    /\ pc = "alloc"
    /\ Len(scored) > Len(picks)
    /\ \E k \in 1..Len(scored) :
          /\ scored[k].score = picks[Len(picks)].score
          /\ scored[k].symbol # picks[Len(picks)].symbol

\* C10: when no candidate passes the risk ceiling, or the allocator accepts
\* none, the call returns a normal result with zero recommendations,
\* total_investment 0 and expected_return 0.
C10_EmptySelection ==
    [][ (pc = "alloc" /\ i > Len(picks) /\ recs = <<>>) =>
            /\ response'.status = 200
            /\ response'.recommendations = <<>>
            /\ response'.total_investment = 0
            /\ response'.expected_return = 0 ]_vars

\* C10 witness: every candidate was above the risk ceiling and the call
\* returned
C10_Witness ==
    /\ pc = "done"
    /\ response.status = 200
    /\ response.recommendations = <<>>
    /\ \A sym \in Symbols : RiskAbove(sym, SpecTier(req.total_capital)[3])

SpecAllocation(p, cap, ps, invested) ==
    LET sum    == SumScores(ps)
        total  == IF sum[1] = 0 THEN <<1, 1>> ELSE sum
        l      == LCM(p.score[2], total[2])
        target == MulDivQR(cap, p.score[1] * (l \div p.score[2]),
                           total[1] * (l \div total[2]))[1]
        s1     == Max2(1, target \div p.price)
        c1     == s1 * p.price
        s2     == IF invested + c1 > cap
                  THEN Max2(1, (cap - invested) \div p.price) ELSE s1
    IN  <<s2, s2 * p.price>>

\* C15: every accepted pick gets shares = max(1, floor(target / price)) with
\* target = total_capital x score / total_score, recomputed as
\* max(1, floor((total_capital - total_invested) / price)) when the first
\* cost would overflow the capital; its allocation is shares x price.
C15_AllocationFormula ==
    [][ (pc = "alloc" /\ i <= Len(picks) /\ Len(recs') = Len(recs) + 1) =>
            LET a == SpecAllocation(picks[i], capital, picks, total_invested)
                r == recs'[Len(recs')]
            IN  /\ r.recommended_shares = a[1]
                /\ r.recommended_allocation = a[2] ]_vars

\* C16: a pick whose recomputed cost is <= 0 or does not fit the remaining
\* capital adds no recommendation and leaves total_invested as it was, and
\* the loop goes on with the next pick; any other pick is accepted.
C16_SkipLeavesState ==
    [][ (pc = "alloc" /\ i <= Len(picks) /\ i' # i) =>
            LET a == SpecAllocation(picks[i], capital, picks, total_invested)
            IN  IF a[2] <= 0 \/ total_invested + a[2] > capital
                THEN /\ recs' = recs
                     /\ total_invested' = total_invested
                     /\ i' = i + 1
                     /\ pc' = "alloc"
                     /\ picks' = picks
                ELSE /\ Len(recs') = Len(recs) + 1
                     /\ recs'[Len(recs')].symbol = picks[i].symbol ]_vars

\* C16 witness: the loop has ended, a pick was skipped and a pick ranked
\* after it was accepted
C16_Witness ==
    /\ pc = "alloc" /\ i > Len(picks)
    /\ \E j, k \in 1..Len(picks) :
          /\ j < k
          /\ \A n \in 1..Len(recs) : recs[n].symbol # picks[j].symbol
          /\ \E n \in 1..Len(recs) : recs[n].symbol = picks[k].symbol

\* C17: from one iteration of the allocation loop to the next the running
\* total_invested does not decrease, and after every iteration it is at
\* most the capital.
C17_RunningTotal ==
    [][ (pc' = "alloc") =>
            /\ total_invested' <= capital'
            /\ total_invested' >= 0
            /\ pc = "alloc" => total_invested' >= total_invested ]_vars

\* C17 witness: two iterations in, with capital invested and capital left
C17_Witness ==
    /\ pc = "alloc" /\ i = 3 /\ i <= Len(picks)
    /\ Len(recs) = 2
    /\ total_invested > 0 /\ total_invested < capital

\* C18: the allocator takes the picks once, in ranked order: an iteration
\* never changes picks, never touches a recommendation already emitted and
\* always moves to the next pick; the recommendations follow the order of
\* the picks.
C18_GreedyInOrder ==
    [][ (pc = "alloc" /\ pc' = "alloc") =>
            /\ picks' = picks
            /\ i' = i + 1
            /\ Len(recs') >= Len(recs)
            /\ SubSeq(recs', 1, Len(recs)) = recs
            /\ \A n \in 1..Len(recs') :
                  \E k \in 1..i : /\ picks[k].symbol = recs'[n].symbol
                                  /\ n <= k ]_vars

\* C18 witness: an earlier pick took several shares, a later pick was
\* skipped, and one share of every pick would have fitted the capital
C18_Witness ==
    /\ pc = "alloc" /\ i > Len(picks)
    /\ SumField(picks, "price") <= capital
    /\ \E j, k \in 1..Len(picks) :
          /\ j < k
          /\ \E n \in 1..Len(recs) : /\ recs[n].symbol = picks[j].symbol
                                     /\ recs[n].recommended_shares >= 2
          /\ \A n \in 1..Len(recs) : recs[n].symbol # picks[k].symbol

\* C19: the strategy multiplier is 0.7 / 1.0 / 1.3 / 1.5 for conservative /
\* balanced / growth / aggressive, the risk multiplier 0.5 / 0.7 / 1.0 / 1.3
\* / 1.5 for very_low / low / moderate / high / very_high, any other value
\* gives 1.0, and a request with such a value is processed, not rejected.
C19_Multipliers ==
    LET st == req.investment_strategy
        rt == req.risk_tolerance
    IN  /\ pc \in {"score", "rank", "alloc"} =>
              /\ st = "conservative" => sm = 7
              /\ st = "balanced" => sm = 10
              /\ st = "growth" => sm = 13
              /\ st = "aggressive" => sm = 15
              /\ st \notin {"conservative", "balanced", "growth", "aggressive"}
                     => sm = 10
              /\ rt = "very_low" => rm = 5
              /\ rt = "low" => rm = 7
              /\ rt = "moderate" => rm = 10
              /\ rt = "high" => rm = 13
              /\ rt = "very_high" => rm = 15
              /\ rt \notin {"very_low", "low", "moderate", "high", "very_high"}
                     => rm = 10
        /\ (pc = "done" /\ req.total_capital >= 5000 /\ req.total_capital <= 1000000)
               => response.status = 200

\* C19 witness: a request with an unrecognized strategy returned positions
C19_Witness ==
    /\ Returned
    /\ req.investment_strategy = "momentum"
    /\ Len(response.recommendations) >= 2

\* the unrounded composite score of the specification for a catalog symbol:
\* base_return x strategy multiplier x risk multiplier x confidence
SpecScore(sym) ==
    IF impl = "live"
    THEN LET b == LiveBaseReturn(market[sym])
             c == LiveConfidence(market[sym])
         IN  Rat(b[1] * sm * rm * c[1], b[2] * 100 * c[2])
    ELSE Rat((8 + market[sym].ret) * sm * rm * (60 + market[sym].conf), 10000)

\* C20: the score of every scored candidate, used for ranking and for the
\* allocation weights, is base_return x strategy_multiplier x
\* risk_multiplier x confidence, computed from the unrounded values.
C20_CompositeScore ==
    pc \in {"rank", "alloc"} =>
        /\ \A k \in 1..Len(scored) : scored[k].score = SpecScore(scored[k].symbol)
        /\ \A k \in 1..Len(picks) : picks[k].score = SpecScore(picks[k].symbol)

Rejected(n) == inv[n].pc # "idle" /\ CapitalOutOfRange(inv[n].req.total_capital)

\* C12: an invocation with out-of-range capital goes from the validation
\* straight to the error: it never classifies a tier, never hands a task to
\* the executor, never scores, and its step leaves the quote cache as it was.
C12_ValidationFirst ==
    /\ [](\A n \in Invocations :
             Rejected(n) =>
                 /\ inv[n].pc \in {"start", "done"}
                 /\ \A sym \in Fetched : inv[n].th[sym] = "none"
                 /\ inv[n].max_risk = 0 /\ inv[n].sm = 0 /\ inv[n].rm = 0
                 /\ inv[n].scored = <<>>
                 /\ inv[n].pc = "done" => inv[n].status = 400)
    /\ [][ \A n \in Invocations :
              (Rejected(n) /\ inv'[n] # inv[n] /\ inv[n].pc = "start") =>
                  /\ inv'[n].pc = "done"
                  /\ inv'[n].status = 400
                  /\ _cache' = _cache ]_vars

\* C12 witness: a request was rejected while the cache held a quote and
\* another invocation was fetching
C12_Witness ==
    \E n, m \in Invocations :
        /\ Rejected(n) /\ inv[n].pc = "done" /\ inv[n].status = 400
        /\ inv[m].pc = "fetch"
        /\ \E sym \in Fetched : _cache[sym] # NoEntry

\* C14: an invocation that is scoring or has scored has no task pending,
\* its all_quotes is what its own tasks returned, and every candidate it
\* scored carries the price of that one result set.
C14_ScoreAfterFetch ==
    \A n \in Invocations :
        (inv[n].pc = "score" \/ (inv[n].pc = "done" /\ inv[n].status = 200)) =>
            /\ \A sym \in Fetched : inv[n].th[sym] = "done"
            /\ inv[n].all_quotes = inv[n].futures
            /\ \A k \in 1..Len(inv[n].scored) :
                  inv[n].scored[k].price
                      = inv[n].all_quotes[inv[n].scored[k].symbol].price
            /\ inv[n].pc = "done" =>
                  \A sym \in Fetched :
                      HasPrice(inv[n].all_quotes[sym]) =>
                          \E k \in 1..Len(inv[n].scored) : inv[n].scored[k].symbol = sym

\* C14 witness: an invocation has scored two fetched quotes while a task of
\* another invocation is still waiting for Yahoo
C14_Witness ==
    \E n, m \in Invocations :
        /\ inv[n].pc = "done" /\ Len(inv[n].scored) = 2
        /\ inv[m].pc = "fetch"
        /\ \E sym \in Fetched : inv[m].th[sym] = "waiting"

\* C21: every candidate the live scoring loop appends, for a quote with a
\* positive price, has base_return in [2, 25], confidence in [0, 1] and
\* risk_score in [0, 1], also when the price lies outside the 52-week range
\* or the 52-week high is not above the low
C21_ScoreRanges ==
    cand.appended =>
        /\ ~ RatLess(cand.base_return, <<2, 1>>) /\ ~ RatLess(<<25, 1>>, cand.base_return)
        /\ ~ RatLess(cand.confidence, <<0, 1>>)  /\ ~ RatLess(<<1, 1>>, cand.confidence)
        /\ ~ RatLess(cand.risk_score, <<0, 1>>)  /\ ~ RatLess(<<1, 1>>, cand.risk_score)

\* the picks of the request being answered, recomputed from the request
\* and the market
RequestPicks ==
    LET cap == IF impl = "gateway" THEN ClampCapital(req.total_capital)
               ELSE req.total_capital
        t   == get_tier(cap)
        smu == strat_mult(req.investment_strategy)
        rmu == risk_mult_map(req.risk_tolerance)
    IN  Picks(IF impl = "live" THEN LiveScored(market, t[3], smu, rmu)
              ELSE GatewayScored(market, t[3], smu, rmu), t[2])

\* C22: every returned recommendation has target_price = current_price x
\* (1 + predicted_return / 100), to the cent, and expected_return is the
\* mean of predicted_return over the accepted recommendations only, to the
\* tenth of a percent, and 0 when none is accepted
C22_TargetAndMean ==
    [][ (pc = "alloc" /\ pc' = "done") =>
            LET out == response'.recommendations
            IN  /\ out = recs
                /\ \A n \in 1..Len(out) :
                      2 * Abs(out[n].target_price * 1000
                              - out[n].current_price * (1000 + out[n].predicted_return))
                          <= 1000
                /\ IF recs = <<>>
                   THEN response'.expected_return = 0
                   ELSE 2 * Abs(response'.expected_return * Len(recs)
                                - SumField(recs, "predicted_return")) <= Len(recs) ]_vars

\* C22 witness: a response with two recommendations whose target prices
\* differ from the current prices, one pick having been skipped, and with
\* a mean that would be different had the skipped pick been counted
C22_Witness ==
    /\ Returned
    /\ Len(response.recommendations) = 2
    /\ Len(RequestPicks) = 3
    /\ \A n \in 1..2 :
          response.recommendations[n].target_price
              > response.recommendations[n].current_price
    /\ 2 * Abs(response.expected_return * 3 - SumField(RequestPicks, "predicted_return")) > 3

\* C23: for every tier and every non-empty list of selected stocks, each
\* allocation returned by _calculate_allocations is at most
\* max_single_stock_percentage of the investable capital
C23_MaxSingleStock ==
    engine_call.method = "_calculate_allocations" =>
        \A k \in 1..Len(engine_result) :
            ~ RatLess(Rat(engine_call.investable_capital
                              * engine_call.max_single_stock_percentage, 100),
                      engine_result[k])

\* the score the weights of the engine give: 0.35 prediction, technical,
\* sentiment, 0.20 risk, adjusted for the strategy
SpecStockScore(d, strategy) ==
    LET weights == ComponentWeights(d)
        total   == WeightedSum(ComponentScores(d), weights, DOMAIN weights)
        adj     == _adjust_for_strategy(total, d.risk, d.pred_return, strategy)
    IN  RoundHalfEven(adj[1], adj[2])

\* C24: every symbol passed to _score_stocks that has a price and a
\* prediction has an entry in the returned dict, with the weighted sum of
\* its component scores as score, and with its risk_score, predicted_return
\* and confidence; it is never dropped by an internal error
C24_ScoredNotDropped ==
    engine_call.method = "_score_stocks" =>
        \A k \in 1..Len(engine_call.symbols) :
            LET sym == engine_call.symbols[k]
                d   == engine_call.data[sym]
            IN  (d.price /\ d.prediction) =>
                    /\ sym \in DOMAIN engine_result
                    /\ engine_result[sym].score = SpecStockScore(d, engine_call.strategy)
                    /\ engine_result[sym].risk_score = d.risk
                    /\ engine_result[sym].predicted_return = d.pred_return
                    /\ engine_result[sym].confidence = d.confidence

\* a step took the user's list out of active_connections
ConnectionsRemoved(u) ==
    u \in DOMAIN active_connections /\ u \notin DOMAIN active_connections'

\* a step took websockets off the user's list and left some
ConnectionsShrunk(u) ==
    /\ u \in DOMAIN active_connections
    /\ u \in DOMAIN active_connections'
    /\ Len(active_connections'[u]) < Len(active_connections[u])

\* C25: after disconnect removes a user's last websocket the user has no
\* entry in active_connections and is a member of no stock subscription
\* set; while the user still has another websocket connected the
\* subscription sets are left as they were.
C25_DisconnectCleansUp ==
    [][ \A u \in Users :
            /\ ConnectionsRemoved(u) =>
                   \A sym \in DOMAIN stock_subscriptions' :
                       u \notin stock_subscriptions'[sym]
            /\ ConnectionsShrunk(u) =>
                   /\ DOMAIN stock_subscriptions' = DOMAIN stock_subscriptions
                   /\ \A sym \in DOMAIN stock_subscriptions :
                          (u \in stock_subscriptions'[sym])
                              = (u \in stock_subscriptions[sym]) ]_vars

\* a broadcast in which one subscriber lost one websocket of two and kept
\* the subscription, and another subscriber lost the only websocket and
\* with it the list and the subscription
C25_Witness ==
    /\ broadcast.pc \in {"running", "raised"}
    /\ \E u1, u2 \in broadcast.subscribers :
           /\ u1 # u2
           /\ \E ws \in Sockets : <<u1, ws>> \in broadcast.failed
           /\ u1 \in DOMAIN active_connections
           /\ u1 \in stock_subscriptions[broadcast.symbol]
           /\ \E ws \in Sockets : <<u2, ws>> \in broadcast.failed
           /\ u2 \notin DOMAIN active_connections
           /\ \A sym \in DOMAIN stock_subscriptions :
                  u2 \notin stock_subscriptions[sym]

\* C26: broadcast_stock_update never raises, and when it has returned
\* every websocket still connected for a user that was subscribed has
\* been sent the update, while every websocket whose send failed has been
\* removed from the user's list.
C26_BroadcastCompletes ==
    /\ broadcast.pc # "raised"
    /\ broadcast.pc = "done" =>
           /\ \A u \in broadcast.subscribers \cap DOMAIN active_connections :
                  \A ws \in ListItems(active_connections[u]) :
                      <<u, ws>> \in broadcast.delivered
           /\ \A pair \in broadcast.failed :
                  \/ pair[1] \notin DOMAIN active_connections
                  \/ pair[2] \notin ListItems(active_connections[pair[1]])

\* the TTL the specification gives for each function
SpecTTL(fn) == IF fn = "_get_ai_cached" THEN 900 ELSE 300

\* a step in which a cache function is called
LookupCalled == lookup.pc \in {"idle", "returned"} /\ lookup' # lookup

\* C27: a lookup made less than TTL seconds (300 for _cache, 900 for
\* _ai_cache) after the entry's timestamp returns the stored value without
\* invoking the fetcher; a lookup of an absent key or of an entry whose
\* age is at least the TTL invokes the fetcher.
C27_TTLLookup ==
    [][ LookupCalled =>
            LET cache == CacheOf(lookup'.fn)
                key == lookup'.key
            IN  IF key \in DOMAIN cache /\ now - cache[key][1] < SpecTTL(lookup'.fn)
                THEN /\ lookup'.pc = "returned"
                     /\ lookup'.result = cache[key][2]
                     /\ ~ lookup'.fetched
                ELSE /\ lookup'.pc = "fetching"
                     /\ lookup'.fetched ]_vars

\* an AI analysis is served from the cache one second before it expires,
\* at an age at which a quote has long expired
C27_Witness ==
    /\ lookup.pc = "returned"
    /\ lookup.fn = "_get_ai_cached"
    /\ ~ lookup.fetched
    /\ lookup.key \in DOMAIN _ai_cache
    /\ lookup.tnow - _ai_cache[lookup.key][1] = 899
    /\ lookup.result = _ai_cache[lookup.key][2]

\* the data entries of _ai_cache: every key but '_last_error'
AiDataKeys(cache) == DOMAIN cache \ {"_last_error"}

\* no cache holds None as data
NoNoneStored ==
    /\ \A k \in DOMAIN _cache : _cache[k][2] # None
    /\ \A k \in AiDataKeys(_ai_cache) : _ai_cache[k][2] # None

\* a step in which the fetcher of the running lookup returns None
FetchFailed ==
    lookup.pc = "fetching" /\ lookup'.pc = "returned" /\ lookup'.result = None

\* C30: a failed fetch changes no entry of _cache and no data entry of
\* _ai_cache: no None is ever stored, an absent key stays absent (so the
\* next lookup fetches again), an expired entry stays as it was, and the
\* caller gets None, not the stale value.
C30_FailedFetch ==
    /\ []NoNoneStored
    /\ [][ FetchFailed =>
               /\ _cache' = _cache
               /\ AiDataKeys(_ai_cache') = AiDataKeys(_ai_cache)
               /\ \A k \in AiDataKeys(_ai_cache) : _ai_cache'[k] = _ai_cache[k]
               /\ lookup'.result = None ]_vars

\* the refetch of an expired quote failed: the caller has None while the
\* expired entry is still in _cache
C30_Witness ==
    /\ lookup.pc = "returned"
    /\ lookup.fetched
    /\ lookup.result = None
    /\ lookup.fn # "_get_ai_cached"
    /\ lookup.key \in DOMAIN _cache
    /\ lookup.tnow - _cache[lookup.key][1] >= 300
    /\ _cache[lookup.key][2] # None

\* C28: with positive prices a picked candidate is accepted exactly when
\* the price of one share is at most total_capital - total_invested at the
\* moment it is processed, whatever its score-proportional target is.
C28_AcceptedIffOneShareFits ==
    [][ (pc = "alloc" /\ i <= Len(picks) /\ i' # i /\ picks[i].price > 0) =>
            ( /\ Len(recs') = Len(recs) + 1
              /\ recs'[Len(recs')].symbol = picks[i].symbol )
            <=> picks[i].price <= capital - total_invested ]_vars

\* C28 witness: the loop has ended; a pick whose target was below the price
\* of one share was accepted, and a pick whose target paid for a share was
\* not, because the capital left did not
C28_Witness ==
    /\ pc = "alloc" /\ i > Len(picks)
    /\ total_score[1] > 0
    /\ \E j, k \in 1..Len(picks) :
          /\ picks[j].price > 0 /\ picks[k].price > 0
          /\ AllocQR(capital, picks[j].score, total_score)[1][1] < picks[j].price
          /\ \E n \in 1..Len(recs) : recs[n].symbol = picks[j].symbol
          /\ AllocQR(capital, picks[k].score, total_score)[1][1] >= picks[k].price
          /\ \A n \in 1..Len(recs) : recs[n].symbol # picks[k].symbol

\* what the specification says does not depend on risk tolerance and
\* strategy: the recommended symbols in their order with price, confidence,
\* share count and cost, the tier and the total invested
Positions(r) ==
    << r.tier, r.total_investment,
       [k \in 1..Len(r.recommendations) |->
           << r.recommendations[k].symbol,
              r.recommendations[k].current_price,
              r.recommendations[k].confidence_score,
              r.recommendations[k].recommended_shares,
              r.recommendations[k].recommended_allocation >>] >>

\* C29: in the gateway, for a fixed capital and catalog, the recommended
\* symbols, their order, their share counts and their costs are the same
\* for every combination of risk_tolerance and investment_strategy.
C29_StyleIndependent ==
    (impl = "gateway" /\ pc = "done" /\ previous # NoResponse
        /\ response.status = 200 /\ previous.status = 200)
        => Positions(response) = Positions(previous)

====
